---- MODULE Spec2Model ----
(***************************************************************************)
(* State-machine model of the i2pd streaming engine:                       *)
(* libi2pd/Streaming.cpp (Stream, StreamingDestination, SendBufferQueue).  *)
(*                                                                         *)
(* One Stream object is a record; every method of Stream is an operator    *)
(* from the record before the call to the record after it.  The record     *)
(* fields carry the names of the C++ members.  Fields without the m_       *)
(* prefix are bookkeeping of the model: the timers' remaining time, the    *)
(* loop's posted handlers, the packets emitted by the running handler and  *)
(* histories the properties read.                                          *)
(*                                                                         *)
(* Time is relative.  A packet of m_SentPackets carries its age            *)
(* (now - sendTime), a timer its remaining time; Tick advances both.       *)
(* m_RTT and m_PrevRTT are doubles in the program and are held here in     *)
(* fixed point, in units of 1/RttScale of a time unit.                     *)
(***************************************************************************)
EXTENDS Integers, Sequences, FiniteSets, TLC

VARIABLES stream, peer, net, dest, app

vars == <<stream, peer, net, dest, app>>

Min(a, b) == IF a < b THEN a ELSE b
Max(a, b) == IF a > b THEN a ELSE b
SetMin(S) == CHOOSE x \in S : \A y \in S : x <= y
SetMax(S) == CHOOSE x \in S : \A y \in S : x >= y

\* One statement after another: F runs on the state that the statements before
\* it have left, a.
Then(a, F(_)) == CHOOSE r \in {F(x) : x \in {a}} : TRUE

(***************************************************************************)
(* Bounds of the model.                                                    *)
(***************************************************************************)
\* highest sequence number of a packet the environment hands to a stream
MaxSeq == 2
\* highest value of m_SequenceNumber the application may drive a stream to
MaxSend == 3
\* saturation value of a sent packet's age
AgeCap == 3
\* most callbacks of cancelled ack-timer waits kept pending at once
MaxAborted == 1

(***************************************************************************)
(* Program constants (Streaming.h).                                        *)
(***************************************************************************)
MIN_WINDOW_SIZE == 1
INITIAL_WINDOW_SIZE == 2
MAX_WINDOW_SIZE == 3
MIN_RTO == 1
INITIAL_RTT == 1
INITIAL_RTO == 2
MAX_NUM_RESEND_ATTEMPTS == 2
MIN_SEND_ACK_TIMEOUT == 1
SYN_TIMEOUT == 2
DELAY_CHOKING == 4
STREAMING_MTU == 2
\* RTT_EWMA_ALPHA = RTT_EWMA_ALPHA_NUM / RttScale
RTT_EWMA_ALPHA_NUM == 1
RttScale == 2
INITIAL_PACING_TIME == (1000 * INITIAL_RTT) \div INITIAL_WINDOW_SIZE
\* owner configuration: GetStreamingAckDelay, GetStreamingOutboundSpeed
AckDelay == 2
OutboundSpeed == 4000
\* the literal of SendQuickAck's NACK limit
NACK_LIMIT == 256


(***************************************************************************)
(* Packets.  flags is the set of flag names set in the packet.  hash is    *)
(* what the 8 NACK slots of a first SYN carry: "none" when nackCount is    *)
(* not 8, "ok" the addressed destination's hash, "bad" another hash.  opt  *)
(* tells how the options block verifies: "ok", "rsa" (FROM identity is     *)
(* RSA), "badoff" (offline signature does not parse), "toobig" (offline    *)
(* signature whose transient key signs longer than the signature buffer),  *)
(* "badsig" (signature does not verify).                                   *)
(***************************************************************************)
Packet(sid, rid, seqn, ack, nacks, hash, flags, delay, opt, len) ==
    [sid |-> sid, rid |-> rid, seqn |-> seqn, ack |-> ack, nacks |-> nacks,
     hash |-> hash, flags |-> flags, delay |-> delay, opt |-> opt, len |-> len]

IsSYN(p) == "SYN" \in p.flags
IsNoAck(p) == "NOACK" \in p.flags
IsEcho(p) == "ECHO" \in p.flags
GetNACKCount(p) == IF p.hash # "none" THEN 8 ELSE Cardinality(p.nacks)

NoPath == [t |-> 0, l |-> 0, rtt |-> 0, set |-> FALSE]
\* what the collaborators answer to a handler: whether the tunnel in use is
\* established, the value of rand (), the number of tunnels in the pool and of
\* leases in the remote lease set
DefaultEnv == [tunnelUp |-> TRUE, rnd |-> 0, tunnels |-> 1, leases |-> 1]

\* The arrivals of packets with seqn >= 1: `after` the seqns that arrived once
\* the stream had processed seqn 0, `early` whether one arrived before that,
\* `clean` whether none carried CLOSE or RESET or failed option processing.
\* `gap` whether one arrived ahead of the next seqn in sequence.
NoArrivals == [after |-> {}, early |-> FALSE, clean |-> TRUE, gap |-> FALSE]

\* What is known of the transmissions of SendBuffer and ResendPacket: `sends`
\* how many packets they handed to SendPackets since m_IsSendTime was last set
\* to true (by the constructor or by a timer's handler), `full` whether
\* SendBuffer ever made a packet while m_SentPackets held m_WindowSize packets
\* or more.
NoSends == [sends |-> 0, full |-> FALSE]

\* Stream::Stream, outgoing (remote lease set given) and incoming
NewStream(recvStreamID, outgoing) ==
    [m_SendStreamID |-> 0, m_RecvStreamID |-> recvStreamID,
     m_SequenceNumber |-> 0,
     m_LastReceivedSequenceNumber |-> -1, m_PreviousReceivedSequenceNumber |-> -1,
     m_Status |-> "New",
     m_IsAckSendScheduled |-> FALSE, m_IsNAcked |-> FALSE, m_IsSendTime |-> TRUE,
     m_IsWinDropped |-> TRUE, m_IsTimeOutResend |-> FALSE,
     m_RemoteLeaseSet |-> outgoing,
     m_RemoteIdentity |-> IF outgoing THEN "ok" ELSE "none",
     m_TransientVerifier |-> "none",
     m_RoutingSession |-> FALSE,
     m_CurrentOutboundTunnel |-> 0, m_CurrentRemoteLease |-> 0,
     m_RTT |-> INITIAL_RTT * RttScale, m_WindowSize |-> INITIAL_WINDOW_SIZE,
     m_RTO |-> INITIAL_RTO, m_PrevRTTSample |-> INITIAL_RTT,
     m_PrevRTT |-> INITIAL_RTT * RttScale, m_Jitter |-> 0,
     m_MinPacingTime |-> IF OutboundSpeed # 0
                         THEN (1000000 * STREAMING_MTU) \div OutboundSpeed ELSE 0,
     m_PacingTime |-> INITIAL_PACING_TIME, m_NumResendAttempts |-> 0,
     m_SentPackets |-> {}, m_SavedPackets |-> {}, m_ReceiveQueue |-> <<>>,
     m_SendBuffer |-> 0,
     \* timers: -1 no wait pending, r >= 0 a wait with r time units left
     m_AckSendTimer |-> -1, m_SendTimer |-> -1, m_ResendTimer |-> -1,
     ackAborted |-> 0,       \* callbacks of cancelled ack-timer waits not yet run
     posted |-> <<>>,        \* handlers posted to the service, oldest first
     sharedPath |-> NoPath,  \* the routing session's shared routing path
     env |-> DefaultEnv,     \* what the collaborators answer to the running handler
     out |-> <<>>,           \* packets the last handler handed to the tunnel
     statusLog |-> <<>>,     \* m_Status when the last handler began, then the
                             \* values the handler assigned to it
     processed |-> <<>>,     \* seqn of every packet passed to ProcessPacket
     delivered |-> <<>>,     \* seqn of every packet pushed to m_ReceiveQueue
     deleteCalls |-> 0,      \* calls of DeleteStream(this)
     closesSent |-> 0,       \* executions of SendClose
     sigFailed |-> FALSE,    \* the last handler saw a signature fail to verify
     resentSample |-> FALSE, \* the last handler took an RTT sample from a packet
                             \* that ResendPacket had transmitted
     rejected |-> <<>>,      \* the packet ProcessOptions rejected, with
                             \* m_LastReceivedSequenceNumber and `delivered` then
     paced |-> FALSE,        \* UpdatePacingTime has run
     halvings |-> 0,         \* halvings of m_WindowSize since m_IsWinDropped was
                             \* last cleared
     gate |-> NoSends,       \* the packets SendBuffer and ResendPacket sent since
                             \* m_IsSendTime was last set (see NoSends)
     rx |-> NoArrivals,      \* the packets that have arrived (see Deliver)
     parity |-> 0]           \* the peer's packets of this parity of seqn carry payload

IsEstablished(s) == s.m_SendStreamID # 0

SetStatus(s, v) == [s EXCEPT !.m_Status = v, !.statusLog = Append(@, v)]

\* deadline_timer::cancel of the ack timer: a pending wait completes with
\* operation_aborted, and HandleAckSendTimer is still called for it
CancelAckTimer(s) ==
    IF s.m_AckSendTimer >= 0
    THEN [s EXCEPT !.m_AckSendTimer = -1, !.ackAborted = Min(@ + 1, MaxAborted)]
    ELSE s

\* time units of a wait of `micros` microseconds
TicksOfMicros(micros) == Max(1, (micros + 999) \div 1000)

RoundDiv(num, den) == (2 * num + den) \div (2 * den)

UpdatePacingTime(s) ==
    LET p == RoundDiv(s.m_RTT * 1000, RttScale * s.m_WindowSize)
    IN [s EXCEPT !.m_PacingTime =
                     IF s.m_MinPacingTime # 0 /\ p < s.m_MinPacingTime
                     THEN s.m_MinPacingTime ELSE p,
                 !.paced = TRUE]

\* (int)(m_RTT * 1.3 + m_Jitter)
RtoOf(rtt, jitter) == (rtt * 13 + jitter * 10 * RttScale) \div (10 * RttScale)

\* m_RTO from RTT and jitter without std::max (MIN_RTO, ...)
RtoFromUnclamped(rtt, jitter) == RtoOf(rtt, jitter)

\* m_RTO = std::max (MIN_RTO, (int)(m_RTT * 1.3 + m_Jitter)): after an RTT
\* sample in ProcessAck and for the RTT of a shared routing path in SendPackets
RtoFrom(rtt, jitter) == Max(MIN_RTO, RtoOf(rtt, jitter))

Terminate(s, deleteFromDestination) ==
    LET Stop(a) ==
            [CancelAckTimer(a) EXCEPT
                !.m_ResendTimer = -1, !.m_SendTimer = -1,
                !.deleteCalls = IF deleteFromDestination THEN Min(@ + 1, 2) ELSE @]
    IN Then(SetStatus(s, "Terminated"), Stop)

ScheduleSend(s) ==
    IF s.m_Status # "Terminated"
    THEN [s EXCEPT !.m_SendTimer = TicksOfMicros(s.m_PacingTime)]
    ELSE s

ScheduleResend(s) ==
    IF s.m_Status # "Terminated"
    THEN LET rto == IF s.m_RTO <= 0 THEN INITIAL_RTO ELSE s.m_RTO
         IN [s EXCEPT !.m_RTO = rto, !.m_ResendTimer = rto]
    ELSE s

ScheduleAck(s, timeout) ==
    LET s1 == IF s.m_IsAckSendScheduled THEN CancelAckTimer(s) ELSE s
        t == IF timeout < MIN_SEND_ACK_TIMEOUT THEN MIN_SEND_ACK_TIMEOUT ELSE timeout
    IN \* expires_from_now cancels a wait that is still pending
       [CancelAckTimer(s1) EXCEPT !.m_IsAckSendScheduled = TRUE, !.m_AckSendTimer = t]


(***************************************************************************)
(* Routing.  The collaborators are held to their good case: the owner      *)
(* finds the remote lease set, the lease set has NumLeases leases that do  *)
(* not expire, and the tunnel pool has NumTunnels tunnels.  env.tunnelUp   *)
(* is the answer of m_CurrentOutboundTunnel->IsEstablished (), env.rnd     *)
(* the value of rand ().                                                   *)
(***************************************************************************)
\* TunnelPool::GetNextOutboundTunnel (excluded): a tunnel other than `excluded`
\* when the pool has one; tunnels and leases are numbered from 1, 0 is nullptr
GetNextOutboundTunnel(excluded, tunnels) == IF excluded = 1 /\ tunnels > 1 THEN 2 ELSE 1

UpdateCurrentRemoteLease(s, expired) ==
    LET s1 == IF ~s.m_RemoteLeaseSet
              THEN [s EXCEPT !.m_RemoteLeaseSet = TRUE, !.m_RemoteIdentity = "ok",
                             !.m_TransientVerifier = "none"]
              ELSE s
        i == (s.env.rnd % s.env.leases) + 1
        j == IF s1.m_CurrentRemoteLease # 0 /\ i = s1.m_CurrentRemoteLease
             THEN (i % s.env.leases) + 1 ELSE i
    IN [s1 EXCEPT !.m_RoutingSession = TRUE, !.m_CurrentRemoteLease = j]

SendPackets(s, packets) ==
    LET Lookup(a) == IF ~a.m_RemoteLeaseSet THEN UpdateCurrentRemoteLease(a, FALSE) ELSE a
        Session(a) == [a EXCEPT !.m_RoutingSession = TRUE]
        \* first message to send: try the shared routing path first
        Shared(a) ==
            IF a.m_CurrentOutboundTunnel = 0 /\ a.sharedPath.set
            THEN [a EXCEPT !.m_CurrentOutboundTunnel = a.sharedPath.t,
                           !.m_CurrentRemoteLease = a.sharedPath.l,
                           !.m_RTT = a.sharedPath.rtt * RttScale,
                           !.m_RTO = RtoFrom(a.sharedPath.rtt * RttScale, a.m_Jitter)]
            ELSE a
        Lease(a) == IF a.m_CurrentRemoteLease = 0 THEN UpdateCurrentRemoteLease(a, TRUE) ELSE a
        \* freshTunnel
        Tunnel(a) ==
            IF a.m_CurrentOutboundTunnel = 0 \/ ~a.env.tunnelUp
            THEN [a EXCEPT !.m_CurrentOutboundTunnel =
                               GetNextOutboundTunnel(@, a.env.tunnels),
                           !.m_RTO = INITIAL_RTO]
            ELSE a
        Emit(a) == [a EXCEPT !.out = @ \o packets]
    IN Then(Then(Then(Then(Then(Then(s, Lookup), Session), Shared), Lease), Tunnel), Emit)

ResetRoutingPath(s) ==
    [s EXCEPT !.m_CurrentOutboundTunnel = 0, !.m_CurrentRemoteLease = 0,
              !.m_RTT = INITIAL_RTT * RttScale, !.m_RTO = INITIAL_RTO,
              !.sharedPath = IF s.m_RoutingSession THEN NoPath ELSE @]

(***************************************************************************)
(* Transmission.                                                           *)
(***************************************************************************)
SavedSeqns(s) == {p.seqn : p \in s.m_SavedPackets}

\* the seqns SendQuickAck lists as NACKs and the ackThrough it writes:
\* the loop over m_SavedPackets in increasing seqn
RECURSIVE FillAllNACKs(_, _, _, _)
\* the loop without the limit on the number of NACKs
FillAllNACKs(saved, nextSeqn, nacks, ack) ==
    IF saved = {} THEN [nacks |-> nacks, ack |-> ack, choking |-> FALSE]
    ELSE LET seqn == SetMin(saved)
         IN FillAllNACKs(saved \ {seqn}, seqn + 1, nacks \cup (nextSeqn .. seqn - 1), ack)

RECURSIVE FillNACKs(_, _, _, _)
FillNACKs(saved, nextSeqn, nacks, ack) ==
    IF saved = {} THEN [nacks |-> nacks, ack |-> ack, choking |-> FALSE]
    ELSE LET seqn == SetMin(saved)
         IN IF Cardinality(nacks) + (seqn - nextSeqn) >= NACK_LIMIT
            THEN [nacks |-> nacks, ack |-> nextSeqn - 1, choking |-> TRUE]
            ELSE FillNACKs(saved \ {seqn}, seqn + 1,
                           nacks \cup (nextSeqn .. seqn - 1), ack)

SendQuickAck(s) ==
    LET last == s.m_LastReceivedSequenceNumber
        lastReceivedSeqn == IF s.m_SavedPackets # {} /\ SetMax(SavedSeqns(s)) > last
                            THEN SetMax(SavedSeqns(s)) ELSE last
        f == IF lastReceivedSeqn > last
             THEN FillNACKs(SavedSeqns(s), last + 1, {}, lastReceivedSeqn)
             ELSE [nacks |-> {}, ack |-> lastReceivedSeqn, choking |-> FALSE]
        p == Packet(s.m_SendStreamID, s.m_RecvStreamID, 0, f.ack, f.nacks, "none",
                    IF f.choking THEN {"DELAY"} ELSE {},
                    IF f.choking THEN DELAY_CHOKING ELSE 0, "ok", 0)
        Emit(a) == SendPackets(a, <<p>>)
    IN IF lastReceivedSeqn < 0 THEN s ELSE Then(s, Emit)

\* SendClose builds the CLOSE packet and posts SendPacket for it
SendClose(s) ==
    LET p == Packet(s.m_SendStreamID, s.m_RecvStreamID, s.m_SequenceNumber,
                    IF s.m_LastReceivedSequenceNumber >= 0
                    THEN s.m_LastReceivedSequenceNumber ELSE 0,
                    {}, "none", {"CLOSE", "SIG"}, 0, "ok", 0)
    IN [s EXCEPT !.m_SequenceNumber = @ + 1,
                 !.posted = Append(@, [task |-> "SendPacket", packet |-> p]),
                 !.closesSent = Min(@ + 1, 3)]

\* std::set<Packet *, PacketCmp>::insert: no second packet of the same seqn
InsertSent(sent, e) ==
    IF \E x \in sent : x.p.seqn = e.p.seqn THEN sent ELSE sent \cup {e}

SendPacket(s, packet) ==
    LET Cancel(a) == IF a.m_IsAckSendScheduled
                     THEN CancelAckTimer([a EXCEPT !.m_IsAckSendScheduled = FALSE])
                     ELSE a
        Insert(a) == [a EXCEPT !.m_SentPackets =
                         InsertSent(@, [p |-> packet, age |-> 0, resent |-> FALSE,
                                        sentAgain |-> FALSE])]
        isEmpty == s.m_SentPackets = {}
        Resend(a) == IF isEmpty THEN ScheduleResend(a) ELSE a
        Emit(a) == SendPackets(a, <<packet>>)
    IN Then(Then(Then(Then(s, Cancel), Emit), Insert), Resend)

\* Close in status Closing (the recursion of Close from status Open ends here)
CloseClosing(s) ==
    IF s.m_SentPackets = {} /\ s.m_SendBuffer = 0
    THEN Then(SetStatus(s, "Closed"), SendClose)
    ELSE s

Close(s) ==
    CASE s.m_Status = "Open" -> Then(SetStatus(s, "Closing"), CloseClosing)
      [] s.m_Status = "Reset" -> Terminate(s, TRUE)
      [] s.m_Status = "Closing" -> CloseClosing(s)
      [] s.m_Status = "Closed" -> Terminate(s, TRUE)
      [] OTHER -> s

\* a stream whose SendBuffer is never held back
GatedNever(s) == FALSE

\* if (numMsgs <= 0 || !m_IsSendTime) return: the window is full, or a packet
\* was sent since the last send time
Gated(s) == s.m_WindowSize - Cardinality(s.m_SentPackets) <= 0 \/ ~s.m_IsSendTime

SendBuffer(s) ==
    LET numMsgs == s.m_WindowSize - Cardinality(s.m_SentPackets)
        isNoAck == s.m_LastReceivedSequenceNumber < 0
        ackThrough == IF isNoAck THEN 0 ELSE s.m_LastReceivedSequenceNumber
        isNew == s.m_Status = "New"
        hasPacket == isNew \/ (IsEstablished(s) /\ s.m_SendBuffer > 0)
        len == Min(s.m_SendBuffer, STREAMING_MTU)
        p == IF isNew
             THEN Packet(s.m_SendStreamID, s.m_RecvStreamID, s.m_SequenceNumber,
                         ackThrough, {},
                         IF s.m_SendStreamID = 0 /\ s.m_RemoteIdentity # "none"
                         THEN "ok" ELSE "none",
                         {"SYN", "FROM", "SIG", "MAXSIZE"}
                             \cup (IF isNoAck THEN {"NOACK"} ELSE {}),
                         0, "ok", len)
             ELSE Packet(s.m_SendStreamID, s.m_RecvStreamID, s.m_SequenceNumber,
                         ackThrough, {}, "none", {}, 0, "ok", len)
        \* the loop: one packet
        Packetize(a) == [a EXCEPT !.m_SequenceNumber = @ + 1,
                                  !.m_SendBuffer = @ - len,
                                  !.m_RemoteLeaseSet = IF isNew THEN TRUE ELSE @,
                                  !.m_RoutingSession = IF isNew THEN TRUE ELSE @]
        Open(a) == IF isNew THEN SetStatus(a, "Open") ELSE a
        NoNACKs(a) == IF a.m_SavedPackets = {}
                      THEN CancelAckTimer([a EXCEPT !.m_IsAckSendScheduled = FALSE])
                      ELSE a
        isEmpty == s.m_SentPackets = {}
        Insert(a) == [a EXCEPT !.m_SentPackets =
                         InsertSent(@, [p |-> p, age |-> 0, resent |-> FALSE,
                                        sentAgain |-> FALSE])]
        Sent(a) == [SendPackets(a, <<p>>) EXCEPT
                       !.m_IsSendTime = FALSE,
                       !.gate = [sends |-> Min(@.sends + 1, 2),
                                 full |-> @.full \/ numMsgs <= 0]]
        Fin(a) == IF a.m_Status = "Closing" /\ a.m_SendBuffer = 0 THEN SendClose(a) ELSE a
        Resend(a) == IF isEmpty THEN ScheduleResend(a) ELSE a
    IN IF Gated(s) \/ ~hasPacket THEN ScheduleSend(s)
       ELSE Then(Then(Then(Then(Then(Then(Then(ScheduleSend(s), Packetize), Open),
                                     NoNACKs), Insert), Sent), Fin), Resend)


(***************************************************************************)
(* Retransmission and the timers' handlers.                                *)
(***************************************************************************)
\* a sent packet is overdue: ts >= sendTime + m_RTO (a saturated age is old)
Overdue(e, rto) == e.age >= rto \/ e.age >= AgeCap

\* a controller that drops the window whenever it sees congestion
DropAlways(s) == TRUE

\* if (!m_IsWinDropped): don't drop window twice
DropAllowed(s) == ~s.m_IsWinDropped

\* m_WindowSize >>= 1, then the clamp to MIN_WINDOW_SIZE
HalveWindow(w) == IF w \div 2 < MIN_WINDOW_SIZE THEN MIN_WINDOW_SIZE ELSE w \div 2

\* a controller halves m_WindowSize and sets m_IsWinDropped
DropWindow(s) ==
    [s EXCEPT !.m_WindowSize = HalveWindow(@), !.m_IsWinDropped = TRUE,
              !.halvings = Min(@ + 1, 2)]

\* a stream that never takes the resend attempts for used up
GiveUpNever(s) == FALSE

\* the resend attempts are used up
GiveUp(s) == s.m_NumResendAttempts >= MAX_NUM_RESEND_ATTEMPTS

ResendPacket(s) ==
    LET due == {e \in s.m_SentPackets : Overdue(e, s.m_RTO)}
        has == due # {}
        first == CHOOSE e \in due : \A x \in due : e.p.seqn <= x.p.seqn
        again == [first EXCEPT !.resent = first.age < 2 * s.m_RTO /\ first.age < AgeCap,
                               !.age = 0]
        \* the loop stamps the packet whether or not it is sent
        Stamp(a) == IF has
                    THEN [a EXCEPT !.m_SentPackets = (@ \ {first}) \cup {again}]
                    ELSE a
        attempts == IF s.m_IsNAcked THEN 1
                    ELSE IF s.m_IsTimeOutResend THEN s.m_NumResendAttempts + 1
                    ELSE s.m_NumResendAttempts
        Count(a) == [a EXCEPT !.m_NumResendAttempts = attempts]
        Rotate(a) == IF attempts % 2 = 1
                     THEN [a EXCEPT !.m_CurrentOutboundTunnel =
                                        GetNextOutboundTunnel(@, a.env.tunnels)]
                     ELSE UpdateCurrentRemoteLease(a, FALSE)
        Control(a) ==
            IF attempts = 1 /\ a.m_RTO # INITIAL_RTO
            THEN \* loss-based CC
                 IF DropAllowed(a) THEN UpdatePacingTime(DropWindow(a)) ELSE a
            ELSE IF a.m_IsTimeOutResend
            THEN Then(UpdatePacingTime(
                          [a EXCEPT !.m_IsTimeOutResend = FALSE,
                                    !.m_RTO = INITIAL_RTO,
                                    !.m_WindowSize = INITIAL_WINDOW_SIZE,
                                    !.m_IsWinDropped = TRUE,
                                    !.sharedPath = IF a.m_RoutingSession
                                                   THEN NoPath ELSE @]), Rotate)
            ELSE a
        \* `sentAgain` of a sent packet: ResendPacket has transmitted it
        Sent(a) == [SendPackets(a, <<again.p>>) EXCEPT
                       !.m_SentPackets = (@ \ {again})
                                             \cup {[again EXCEPT !.sentAgain = TRUE]},
                       !.m_IsSendTime = FALSE,
                       !.gate.sends = Min(@ + 1, 2)]
        Pace(a) == IF a.m_IsNAcked THEN ScheduleSend(a) ELSE a
        Rearm(a) == IF ~a.m_IsNAcked THEN ScheduleResend(a) ELSE a
    IN IF GiveUp(s)
       THEN Then(SetStatus(s, "Reset"), Close)
       ELSE Then(IF has /\ s.m_IsSendTime
                 THEN Then(Then(Then(Then(Then(s, Stamp), Count), Control), Sent), Pace)
                 ELSE Then(Then(s, Stamp), SendBuffer),
                 Rearm)

\* the send timer's wait has expired (ecode is not operation_aborted)
HandleSendTimer(s) ==
    LET Run(a) ==
            IF a.m_IsNAcked THEN ResendPacket(a)
            ELSE IF DropAllowed(a) /\ Cardinality(a.m_SentPackets) = a.m_WindowSize
            THEN UpdatePacingTime(DropWindow(a))
            ELSE IF a.m_WindowSize > Cardinality(a.m_SentPackets) THEN SendBuffer(a)
            ELSE ScheduleSend(a)
    IN Then([s EXCEPT !.m_IsSendTime = TRUE, !.m_SendTimer = -1, !.gate.sends = 0], Run)

\* the handler of the resend timer without m_IsNAcked = false
HandleResendTimerNAcked(s) ==
    Then([s EXCEPT !.m_ResendTimer = -1,
                   !.m_IsSendTime = TRUE,
                   !.gate.sends = 0,
                   !.m_RTO = IF @ > INITIAL_RTO THEN INITIAL_RTO ELSE @,
                   !.m_SendTimer = -1,
                   !.m_IsTimeOutResend = TRUE], ResendPacket)

\* the resend timer's wait has expired (ecode is not operation_aborted)
HandleResendTimer(s) ==
    Then([s EXCEPT !.m_ResendTimer = -1,
                   !.m_IsSendTime = TRUE,
                   !.gate.sends = 0,
                   !.m_RTO = IF @ > INITIAL_RTO THEN INITIAL_RTO ELSE @,
                   !.m_SendTimer = -1,
                   !.m_IsTimeOutResend = TRUE,
                   !.m_IsNAcked = FALSE], ResendPacket)

\* HandleAckSendTimer does not read ecode: it runs the same for an expired wait
\* and for a cancelled one
HandleAckSendTimer(s) ==
    LET Ack(a) == IF a.m_Status = "Open" THEN SendQuickAck(a) ELSE a
    IN IF ~s.m_IsAckSendScheduled THEN s
       ELSE IF s.m_LastReceivedSequenceNumber < 0
       THEN Then(SetStatus(s, "Reset"), Close)
       ELSE [Ack(s) EXCEPT !.m_IsAckSendScheduled = FALSE]


(***************************************************************************)
(* Reception.                                                              *)
(***************************************************************************)
\* the loop of ProcessAck: if (m_WindowSize < MAX_WINDOW_SIZE) m_WindowSize++
\* for each of the n packets retired
\* the window increment without the test against MAX_WINDOW_SIZE
WindowAfterAcksUnbounded(w, n) == w + n

WindowAfterAcks(w, n) == IF w >= MAX_WINDOW_SIZE THEN w ELSE Min(MAX_WINDOW_SIZE, w + n)

\* a stream that takes no seqn for NACKed
NeverNACKed(packet, seqn) == FALSE

\* the loop of ProcessAck over the packet's NACKs: seqn == packet->GetNACK (i)
IsNACKed(packet, seqn) == packet.hash = "none" /\ seqn \in packet.nacks

ProcessAck(s, packet) ==
    LET nacked(seqn) == IsNACKed(packet, seqn)
        covered == {e \in s.m_SentPackets : e.p.seqn <= packet.ack}
        retired == {e \in covered : ~nacked(e.p.seqn)}
        acknowledged == retired # {}
        firstRttSample == \E e \in retired : e.p.seqn = 0
        sampled == {x \in retired : x.p.seqn = 0 \/ ~x.resent}
        samples == {e.age : e \in sampled}
        hasSample == samples # {}
        rttSample == SetMin(samples)
        Retire(a) == [a EXCEPT !.m_IsNAcked = \E e \in covered : nacked(e.p.seqn),
                               !.resentSample = \E e \in sampled : e.sentAgain,
                               !.m_SentPackets = @ \ retired,
                               !.m_WindowSize = WindowAfterAcks(@, Cardinality(retired))]
        \* the RTT sample
        prevSample == IF firstRttSample THEN rttSample ELSE s.m_PrevRTTSample
        rtt == IF firstRttSample THEN rttSample * RttScale
               ELSE (RTT_EWMA_ALPHA_NUM * rttSample * RttScale
                     + (RttScale - RTT_EWMA_ALPHA_NUM) * s.m_RTT) \div RttScale
        jitter == IF rttSample > prevSample THEN rttSample - prevSample
                  ELSE IF rttSample < prevSample THEN prevSample - rttSample
                  ELSE rttSample \div 10
        newJitter == RoundDiv(RTT_EWMA_ALPHA_NUM * s.m_Jitter
                              + (RttScale - RTT_EWMA_ALPHA_NUM) * jitter, RttScale)
        drop == rtt > s.m_PrevRTT /\ DropAllowed(s)
        wasInitial == s.m_RTO = INITIAL_RTO
        Estimate(a) == [a EXCEPT !.m_RTT = rtt, !.m_Jitter = newJitter,
                                 !.m_PrevRTTSample = rttSample,
                                 !.m_WindowSize = IF drop THEN HalveWindow(@)
                                                  ELSE IF @ < MIN_WINDOW_SIZE
                                                  THEN MIN_WINDOW_SIZE ELSE @,
                                 !.m_IsWinDropped = IF drop THEN TRUE ELSE @,
                                 !.halvings = IF drop THEN Min(@ + 1, 2) ELSE @]
        Timeout(a) == [a EXCEPT !.m_PrevRTT = (rtt * 11) \div 10 + newJitter * RttScale,
                                !.m_RTO = RtoFrom(rtt, newJitter)]
        Initial(a) == IF wasInitial THEN ScheduleResend(a) ELSE a
        Sample(a) == IF hasSample
                     THEN Then(Then(Then(Then(a, Estimate), UpdatePacingTime), Timeout),
                               Initial)
                     ELSE a
        Undrop(a) == IF a.m_WindowSize > Cardinality(a.m_SentPackets)
                     THEN [a EXCEPT !.m_IsWinDropped = FALSE, !.halvings = 0] ELSE a
        Rearm(a) == IF acknowledged \/ a.m_IsNAcked THEN ScheduleResend(a) ELSE a
        \* tail loss, or the window was dropped
        TailLoss(a) == IF (a.m_SendBuffer = 0 /\ a.m_SentPackets # {})
                          \/ Cardinality(a.m_SentPackets) > a.m_WindowSize
                       THEN [a EXCEPT !.m_IsNAcked = TRUE] ELSE a
        Share(a) == IF firstRttSample /\ a.m_RoutingSession
                    THEN [a EXCEPT !.sharedPath =
                             [t |-> a.m_CurrentOutboundTunnel, l |-> a.m_CurrentRemoteLease,
                              rtt |-> a.m_RTT \div RttScale, set |-> TRUE]]
                    ELSE a
        Idle(a) == IF a.m_SentPackets = {} /\ a.m_SendBuffer = 0
                   THEN [a EXCEPT !.m_ResendTimer = -1, !.m_SendTimer = -1] ELSE a
        Flush(a) == IF acknowledged
                    THEN SendBuffer([a EXCEPT !.m_NumResendAttempts = 0]) ELSE a
        Finish(a) == IF a.m_Status = "Closed" THEN Terminate(a, TRUE)
                     ELSE IF a.m_Status = "Closing" THEN Close(a)
                     ELSE a
    IN IF packet.ack > s.m_SequenceNumber THEN s
       ELSE Then(Then(Then(Then(Then(Then(Then(Then(Then(s, Retire), Sample), Undrop),
                                          Rearm), TailLoss), Share), Idle), Flush), Finish)

\* m_RemoteIdentity after the FROM option: the lease set's identity, else the
\* one already known, else the one parsed from the option
IdentityAfter(s, flags, packet) ==
    IF "FROM" \notin flags THEN s.m_RemoteIdentity
    ELSE IF s.m_RemoteLeaseSet THEN "ok"
    ELSE IF s.m_RemoteIdentity = "none"
    THEN (IF packet.opt = "rsa" THEN "rsa" ELSE "ok")
    ELSE s.m_RemoteIdentity

\* m_TransientVerifier after the OFFLINE_SIGNATURE option.  The lease set has no
\* transient verifier; ProcessOfflineSignature gives nullptr ("none"), a
\* verifier, or one whose signatures exceed the buffer of 256 bytes ("big")
VerifierAfter(s, flags, packet) ==
    LET identity == IdentityAfter(s, flags, packet)
        parsed == CASE packet.opt = "badoff" -> "none"
                    [] packet.opt = "toobig" -> "big"
                    [] OTHER -> "ok"
    IN IF \/ "OFFLINE" \notin flags
          \/ "FROM" \in flags /\ identity = "rsa"
          \/ identity = "none"
       THEN s.m_TransientVerifier
       ELSE IF s.m_RemoteLeaseSet \/ s.m_TransientVerifier = "none" THEN parsed
       ELSE s.m_TransientVerifier

\* ProcessOptions returns false
OptionsRejected(s, flags, packet) ==
    LET identity == IdentityAfter(s, flags, packet)
        verifier == VerifierAfter(s, flags, packet)
    IN \/ "FROM" \in flags /\ identity = "rsa"
       \/ "OFFLINE" \in flags /\ identity = "none"
       \/ "OFFLINE" \in flags /\ verifier = "none"
       \/ "SIG" \in flags /\ verifier = "big"

\* The stream after ProcessOptions.  flags is passed by value, so the CLOSE flag
\* set on a failed signature stays in ProcessOptions
ProcessOptions(s, flags, packet) ==
    LET Choke(a) == IF packet.delay >= DELAY_CHOKING
                    THEN [a EXCEPT !.m_WindowSize = 1] ELSE a
        Delay(a) ==
            IF "DELAY" \in flags /\ ~a.m_IsAckSendScheduled
            THEN Then(IF packet.delay > 0 /\ packet.delay * RttScale < a.m_RTT
                      THEN [CancelAckTimer(a) EXCEPT
                               !.m_IsAckSendScheduled = TRUE,
                               !.m_AckSendTimer = packet.delay]
                      ELSE a, Choke)
            ELSE a
        Learn(a) == [a EXCEPT !.m_RemoteIdentity = IdentityAfter(s, flags, packet),
                              !.m_TransientVerifier = VerifierAfter(s, flags, packet)]
        verified == packet.opt # "badsig"
        Verify(a) == IF ~OptionsRejected(s, flags, packet) /\ "SIG" \in flags /\ ~verified
                     THEN Close([a EXCEPT !.sigFailed = TRUE]) ELSE a
    IN Then(Then(Then(s, Delay), Learn), Verify)

ProcessPacket(s, packet) ==
    LET flags == packet.flags
        refused == [seqn |-> packet.seqn, len |-> packet.len,
                    last |-> s.m_LastReceivedSequenceNumber,
                    delivered |-> s.delivered]
        Log(a) == [a EXCEPT !.processed = Append(@, packet.seqn)]
        Queue(a) == IF packet.len > 0
                    THEN [a EXCEPT !.m_ReceiveQueue =
                                       Append(@, [seqn |-> packet.seqn, len |-> packet.len]),
                                   !.delivered = Append(@, packet.seqn)]
                    ELSE a
        Last(a) == [a EXCEPT !.m_LastReceivedSequenceNumber = packet.seqn]
        Fin(a) == IF a.m_Status # "Closed" THEN SendClose(a) ELSE a
        Shut(a) == Terminate(SetStatus(a, "Closed"), TRUE)
        Flags(a) == IF "RESET" \in flags THEN Then(SetStatus(a, "Reset"), Close)
                    ELSE IF "CLOSE" \in flags THEN Then(Then(a, Fin), Shut)
                    ELSE a
        Refuse(a) == Terminate([a EXCEPT !.rejected = <<refused>>], TRUE)
        Options(a) == ProcessOptions(a, flags, packet)
    IN IF OptionsRejected(s, flags, packet)
       THEN Then(Then(Then(s, Log), Options), Refuse)
       ELSE Then(Then(Then(Then(Then(s, Log), Options), Queue), Last), Flags)

\* SavePacket deleting the packet that is ahead of sequence
SavePacketDropped(s, packet) == s

\* std::set<Packet *, PacketCmp>::insert of SavePacket
SavePacket(s, packet) ==
    IF packet.seqn \in SavedSeqns(s) THEN s
    ELSE [s EXCEPT !.m_SavedPackets = @ \cup {packet}]

\* the loop over m_SavedPackets left out
DrainSavedNever(s) == s

\* the loop of HandleNextPacket over m_SavedPackets after an in-order packet
RECURSIVE DrainSaved(_)
\* the loop without the test for the next seqn in sequence
DrainSavedAny(s) ==
    IF s.m_Status = "Terminated" \/ s.m_SavedPackets = {} THEN s
    ELSE LET it == CHOOSE p \in s.m_SavedPackets :
                       \A q \in s.m_SavedPackets : p.seqn <= q.seqn
         IN Then(ProcessPacket([s EXCEPT !.m_SavedPackets = @ \ {it}], it), DrainSaved)

DrainSaved(s) ==
    IF s.m_Status = "Terminated" \/ s.m_SavedPackets = {} THEN s
    ELSE LET it == CHOOSE p \in s.m_SavedPackets :
                       \A q \in s.m_SavedPackets : p.seqn <= q.seqn
         IN IF it.seqn = s.m_LastReceivedSequenceNumber + 1
            THEN Then(ProcessPacket([s EXCEPT !.m_SavedPackets = @ \ {it}], it),
                      DrainSaved)
            ELSE s

\* m_SendStreamID taken from every packet
SendStreamIDOfPacket(s, packet) == packet.rid

\* if (!m_SendStreamID) m_SendStreamID = packet->GetReceiveStreamID ()
SendStreamIDAfter(s, packet) ==
    IF s.m_SendStreamID = 0 THEN packet.rid ELSE s.m_SendStreamID

HandleNextPacket(s, packet) ==
    LET adopt == s.m_SendStreamID = 0
        mismatch == adopt /\ s.m_RemoteIdentity = "none" /\ packet.hash = "bad"
        receivedSeqn == packet.seqn
        Adopt(a) == [a EXCEPT !.m_SendStreamID = SendStreamIDAfter(a, packet)]
        Ack(a) == IF ~IsNoAck(packet) THEN ProcessAck(a, packet) ELSE a
        \* next in sequence: schedule the ack for the last message, or answer the SYN
        Answer(a) ==
            IF a.m_Status = "Terminated" THEN a
            ELSE IF a.m_Status = "Open"
            THEN IF ~a.m_IsAckSendScheduled
                 THEN ScheduleAck(a, IF a.m_RTT > 10 * RttScale * AckDelay
                                     THEN AckDelay
                                     ELSE a.m_RTT \div (10 * RttScale))
                 ELSE a
            ELSE IF IsSYN(packet) THEN SendBuffer(a)
            ELSE a
        NextInSequence(a) == Then(Then(ProcessPacket(a, packet), DrainSaved), Answer)
        \* duplicate
        Rotate(a) ==
            IF receivedSeqn <= a.m_PreviousReceivedSequenceNumber
               \/ receivedSeqn = a.m_LastReceivedSequenceNumber
            THEN UpdateCurrentRemoteLease(
                     [a EXCEPT !.m_CurrentOutboundTunnel =
                                   GetNextOutboundTunnel(@, a.env.tunnels)],
                     FALSE)
            ELSE a
        Previous(a) == [a EXCEPT !.m_PreviousReceivedSequenceNumber = receivedSeqn]
        Duplicate(a) == Then(Then(Then(a, Rotate), Previous), SendQuickAck)
        \* missing messages
        Wait(a) == IF a.m_LastReceivedSequenceNumber >= 0
                   THEN IF ~a.m_IsAckSendScheduled
                        THEN ScheduleAck(a, Min(MIN_SEND_ACK_TIMEOUT
                                                    * Cardinality(a.m_SavedPackets),
                                                AckDelay))
                        ELSE a
                   ELSE ScheduleAck(a, SYN_TIMEOUT)
        Missing(a) == Then(SavePacket(a, packet), Wait)
        Dispatch(a) ==
            IF receivedSeqn = 0 /\ packet.flags = {} THEN a
            ELSE IF receivedSeqn = a.m_LastReceivedSequenceNumber + 1
            THEN NextInSequence(a)
            ELSE IF receivedSeqn <= a.m_LastReceivedSequenceNumber THEN Duplicate(a)
            ELSE Missing(a)
    IN IF s.m_Status = "Terminated" THEN s
       ELSE IF mismatch THEN Adopt(s)
       ELSE Then(Then(Then(s, Adopt), Ack), Dispatch)


(***************************************************************************)
(* The destination's registry of streams.                                  *)
(***************************************************************************)
\* DeleteStream erasing from m_Streams only
DeleteStreamRecvOnly(d, s) == [d EXCEPT !.m_Streams = @ \ {s.m_RecvStreamID}]

\* StreamingDestination::DeleteStream (std::shared_ptr<Stream>)
DeleteStream(d, s) ==
    [d EXCEPT !.m_Streams = @ \ {s.m_RecvStreamID},
              !.m_IncomingStreams = @ \ {s.m_SendStreamID},
              !.m_LastStream = IF @ = s.m_RecvStreamID THEN 0 ELSE @]

(***************************************************************************)
(* The state machine of one stream and its environment.                    *)
(***************************************************************************)
LocalID == 1     \* m_RecvStreamID of the stream
PeerID == 7      \* the receiveStreamID the peer's packets carry

\* a handler starts: the collaborators' answers are fixed, the logs are cleared
Begin(s, env) ==
    [s EXCEPT !.env = env, !.out = <<>>, !.statusLog = <<s.m_Status>>,
              !.sigFailed = FALSE, !.resentSample = FALSE]

\* What a specification keeps of a handler's run: `timed` the remaining time of
\* the waits (without it a pending wait may complete at any time), `out` the
\* packets the handler emitted, `log` the values it assigned to m_Status.
Mode(timed, out, log) == [timed |-> timed, out |-> out, log |-> log]
Pending(r, m) == IF ~m.timed /\ r > 0 THEN 0 ELSE r

\* the stream s2 as the handler that ran leaves it
Kept(s2, m) ==
    [s2 EXCEPT !.env = DefaultEnv,
               !.out = IF m.out THEN @ ELSE <<>>,
               !.statusLog = IF m.log THEN @ ELSE <<>>,
               !.m_SendTimer = Pending(@, m),
               !.m_ResendTimer = Pending(@, m),
               !.m_AckSendTimer = Pending(@, m)]

\* a handler has turned the stream into s2
Step(s2, m) ==
    \E r \in {s2} :
        /\ stream' = Kept(r, m)
        /\ dest' = IF r.deleteCalls > stream.deleteCalls THEN DeleteStream(dest, r) ELSE dest
        /\ UNCHANGED <<peer, net, app>>

\* one tunnel and one lease, always usable
Calm == {DefaultEnv}
\* one tunnel and one lease; the tunnel in use may have failed
Faulty == [tunnelUp : BOOLEAN, rnd : {0}, tunnels : {1}, leases : {1}]
\* two tunnels and two leases; the tunnel in use may have failed
Envs == [tunnelUp : BOOLEAN, rnd : {0, 1}, tunnels : {2}, leases : {2}]


\* The shape of a packet: its flags, how its options verify, the delay it
\* requests and what its NACK slots carry.
Shape(flags, opt, delay, hash) ==
    [flags |-> flags, opt |-> opt, delay |-> delay, hash |-> hash]

Data == Shape({}, "ok", 0, "none")
Signed == Shape({"SIG"}, "ok", 0, "none")
\* the first packet of an incoming stream, and the answer to a stream's SYN
Syn == Shape({"SYN", "FROM", "SIG", "NOACK"}, "ok", 0, "none")
SynAck == Shape({"SYN", "FROM", "SIG"}, "ok", 0, "none")
CloseFlag == Shape({"CLOSE", "SIG"}, "ok", 0, "none")
ResetFlag == Shape({"RESET"}, "ok", 0, "none")
\* a SYN carrying an offline signature, with and without the FROM identity
SynOffline == Shape({"SYN", "FROM", "OFFLINE", "SIG", "NOACK"}, "ok", 0, "none")
SynNoFrom == Shape({"SYN", "OFFLINE", "SIG", "NOACK"}, "ok", 0, "none")
Offline == Shape({"OFFLINE", "SIG"}, "ok", 0, "none")
DelayRequest(delay) == Shape({"DELAY"}, "ok", delay, "none")
WithOpt(shape, opt) == [shape EXCEPT !.opt = opt]

\* a packet of the peer addressed to the stream
EnvPacket(shape, seqn, ack, nacks, len) ==
    Packet(LocalID, PeerID, seqn, ack, nacks, shape.hash, shape.flags,
           shape.delay, shape.opt, len)

\* the peer's packet of a seqn has the same payload each time it is sent:
\* one byte when the seqn has the stream's parity, none otherwise
PayloadLen(seqn) == IF seqn % 2 = stream.parity THEN 1 ELSE 0

\* An incoming stream is created for a SYN with seqn 0, which it handles first.
\* The peer learns the id of an outgoing stream from the stream's first packet.
FirstPacketOK(s, p) ==
    /\ (s.m_RemoteIdentity = "none" /\ s.processed = <<>>) => (IsSYN(p) /\ p.seqn = 0)
    /\ ~(s.m_RemoteLeaseSet /\ s.m_Status = "New")

\* the arrivals once packet p has arrived at the stream s
Arrived(s, p) ==
    IF p.seqn = 0 THEN s.rx
    ELSE [after |-> IF s.m_LastReceivedSequenceNumber >= 0
                    THEN s.rx.after \cup {p.seqn} ELSE s.rx.after,
          early |-> s.rx.early \/ s.m_LastReceivedSequenceNumber < 0,
          gap |-> s.rx.gap \/ p.seqn > s.m_LastReceivedSequenceNumber + 1,
          clean |-> /\ s.rx.clean
                    /\ p.flags \cap {"CLOSE", "RESET"} = {}
                    /\ p.opt = "ok"]

Note(s, p, s2) == [s2 EXCEPT !.rx = Arrived(s, p)]

\* a packet arrives for the stream
Deliver(packets, envs, m) ==
    \E p \in packets, env \in envs :
        /\ FirstPacketOK(stream, p)
        /\ Step(Note(stream, p, HandleNextPacket(Begin(stream, env), p)), m)

\* Stream::AsyncSend: the buffer is added and SendBuffer run by a posted handler
AsyncSend(lens, limit, m) ==
    \E len \in lens :
        /\ stream.m_SequenceNumber < limit
        /\ stream.m_SendBuffer = 0
        /\ stream.posted = <<>>
        /\ stream.m_RemoteIdentity # "none"
        /\ Step([Begin(stream, DefaultEnv) EXCEPT
                    !.posted = Append(@, [task |-> "Send", len |-> len])], m)

\* the service runs the oldest posted handler
RunPosted(envs, m) ==
    \E env \in envs :
        /\ stream.posted # <<>>
        /\ LET h == Head(stream.posted)
               s == [Begin(stream, env) EXCEPT !.posted = Tail(@)]
           IN Step(IF h.task = "Send"
                   THEN SendBuffer([s EXCEPT !.m_SendBuffer = @ + h.len])
                   ELSE SendPacket(s, h.packet), m)

\* the application calls Stream::Close
ApiClose(m) ==
    /\ stream.m_Status \notin {"New", "Terminated"}
    /\ Step(Close(Begin(stream, DefaultEnv)), m)

\* the application reads the oldest packet of the receive queue
Receive(m) ==
    /\ stream.m_ReceiveQueue # <<>>
    /\ Step([Begin(stream, DefaultEnv) EXCEPT !.m_ReceiveQueue = Tail(@)], m)

FireSendTimer(envs, m) ==
    \E env \in envs :
        /\ stream.m_SendTimer = 0
        /\ Step(HandleSendTimer(Begin(stream, env)), m)

FireResendTimer(envs, m) ==
    \E env \in envs :
        /\ stream.m_ResendTimer = 0
        /\ Step(HandleResendTimer(Begin(stream, env)), m)

FireAckTimer(envs, m) ==
    \E env \in envs :
        /\ stream.m_AckSendTimer = 0
        /\ Step(HandleAckSendTimer([Begin(stream, env) EXCEPT !.m_AckSendTimer = -1]), m)

\* the callback of a cancelled wait of the ack timer runs
AbortedAckTimer(envs, m) ==
    \E env \in envs :
        /\ stream.ackAborted > 0
        /\ Step(HandleAckSendTimer([Begin(stream, env) EXCEPT !.ackAborted = @ - 1]), m)

\* the destination sees the SYN of an incoming stream again
DuplicateSYN(m) ==
    /\ stream.m_SendStreamID \in dest.m_IncomingStreams
    /\ stream.m_CurrentOutboundTunnel # 0
    /\ Step(ResetRoutingPath(Begin(stream, DefaultEnv)), m)

\* another stream of the routing session publishes a shared routing path
PublishPath(rtts, m) ==
    \E r \in rtts :
        /\ stream.m_RoutingSession
        /\ ~stream.sharedPath.set
        /\ Step([Begin(stream, DefaultEnv) EXCEPT
                    !.sharedPath = [t |-> 1, l |-> 1, rtt |-> r, set |-> TRUE]], m)

Older(e) == [e EXCEPT !.age = Min(AgeCap, @ + 1)]
Down(r) == IF r > 0 THEN r - 1 ELSE r

\* a time unit passes: no wait is due and the service has nothing to run
Tick(m) ==
    /\ stream.m_SendTimer # 0 /\ stream.m_ResendTimer # 0 /\ stream.m_AckSendTimer # 0
    /\ stream.ackAborted = 0 /\ stream.posted = <<>>
    /\ stream.m_Status # "Terminated"
    /\ Step([Begin(stream, DefaultEnv) EXCEPT
                !.m_SentPackets = {Older(e) : e \in @},
                !.m_SendTimer = Down(@), !.m_ResendTimer = Down(@),
                !.m_AckSendTimer = Down(@)], m)

InitDest(incoming) ==
    [m_Streams |-> {LocalID},
     m_IncomingStreams |-> IF incoming THEN {PeerID} ELSE {},
     m_LastStream |-> 0]

\* one stream, just constructed and registered with its destination
InitWith(outgoings, parities) ==
    /\ \E outgoing \in outgoings, parity \in parities :
        /\ stream = [NewStream(LocalID, outgoing) EXCEPT !.parity = parity]
        /\ dest = InitDest(~outgoing)
    /\ peer = 0 /\ net = 0 /\ app = 0

Init == InitWith(BOOLEAN, {0, 1})

(***************************************************************************)
(* Spec: reception.  The peer's packets arrive in any order, with gaps and *)
(* duplicates; the application sends once, closes and reads; the timers'   *)
(* waits complete at any time.                                             *)
(***************************************************************************)
Untimed == Mode(FALSE, FALSE, FALSE)

RxPackets ==
    {EnvPacket(sh, 0, 0, {}, PayloadLen(0)) : sh \in {Syn, SynAck}}
    \cup {EnvPacket(Data, 0, ack, {}, 0) : ack \in {0, 1}}
    \cup {EnvPacket(Data, seqn, 0, {}, PayloadLen(seqn)) : seqn \in 1 .. MaxSeq}
    \cup {EnvPacket(sh, seqn, 1, {}, 0) :
              sh \in {CloseFlag, ResetFlag, WithOpt(Signed, "badsig"),
                       WithOpt(Offline, "badoff")},
              seqn \in 1 .. MaxSeq}

Next ==
    \/ Deliver(RxPackets, Calm, Untimed)
    \/ AsyncSend({1}, 1, Untimed)
    \/ RunPosted(Calm, Untimed)
    \/ ApiClose(Untimed)
    \/ Receive(Untimed)
    \/ FireAckTimer(Calm, Untimed)
    \/ AbortedAckTimer(Calm, Untimed)

Spec == Init /\ [][Next]_vars

(***************************************************************************)
(* Properties of reception.                                                *)
(***************************************************************************)
Increasing(q) == \A i, j \in 1 .. Len(q) : i < j => q[i] < q[j]
Elements(q) == {q[i] : i \in 1 .. Len(q)}

\* C1: whatever the order, the gaps and the duplicates of the packets handed to
\* HandleNextPacket, the packets passed to ProcessPacket have the consecutive
\* seqns 0, 1, 2, ...: each has seqn = m_LastReceivedSequenceNumber + 1 when it
\* is processed; the packets pushed to the receive queue have strictly
\* increasing seqns, so none is delivered twice or out of order.
InOrderDelivery ==
    /\ \A i \in 1 .. Len(stream.processed) : stream.processed[i] = i - 1
    /\ stream.rejected = <<>> =>
           stream.m_LastReceivedSequenceNumber = Len(stream.processed) - 1
    /\ Increasing(stream.delivered)
    /\ Elements(stream.delivered) \subseteq Elements(stream.processed)

\* every seqn up to MaxSeq has been processed although one arrived ahead of
\* sequence and one arrived twice
ReorderedAllProcessed ==
    /\ Len(stream.processed) = MaxSeq + 1
    /\ stream.rx.gap
    /\ stream.m_PreviousReceivedSequenceNumber >= 0
    /\ stream.delivered # <<>>

\* the packets 1 .. n, and no others, have arrived after seqn 0 was processed,
\* none with CLOSE or RESET or failing option processing
ArrivedUpTo(n) ==
    /\ stream.rx.after = 1 .. n
    /\ ~stream.rx.early
    /\ stream.rx.clean

\* m_LastReceivedSequenceNumber = n, nothing is saved, and the payloads pushed
\* to the receive queue after seqn 0 are those of 1 .. n, once each, in order
ReceivedUpTo(n) ==
    LET d == SelectSeq(stream.delivered, LAMBDA x : x >= 1)
    IN /\ stream.m_LastReceivedSequenceNumber = n
       /\ stream.m_SavedPackets = {}
       /\ Increasing(d)
       /\ Elements(d) = {k \in 1 .. n : PayloadLen(k) > 0}

\* C2, as claimed: once seqn 0 has been processed and the packets 1 .. n have
\* each arrived at least once, in any order and with duplicates, none with
\* CLOSE or RESET or failing option processing, the stream has received
\* through n, holds no saved packet and has queued the payloads of 1 .. n once
\* each in seqn order.
ReorderComplete ==
    \A n \in 1 .. MaxSeq : ArrivedUpTo(n) => ReceivedUpTo(n)

\* C2, amended: the same for a stream that has not become Terminated (by a
\* local close that was acknowledged, or by giving up) while they arrived.
ReorderCompleteWhileLive ==
    \A n \in 1 .. MaxSeq :
        (ArrivedUpTo(n) /\ stream.m_Status # "Terminated") => ReceivedUpTo(n)

\* the packets 1 .. MaxSeq have all arrived at a live stream, one ahead of
\* sequence and one twice
ReorderedAllArrived ==
    /\ ArrivedUpTo(MaxSeq)
    /\ stream.m_Status # "Terminated"
    /\ stream.rx.gap
    /\ stream.m_PreviousReceivedSequenceNumber >= 1

(***************************************************************************)
(* SpecQuickAck: the peer's packets arrive with gaps of up to NACK_LIMIT   *)
(* and more seqns; the packets a handler emitted are kept.                 *)
(***************************************************************************)
Emitting == Mode(FALSE, TRUE, FALSE)

QaSeqns == {1, 2, NACK_LIMIT, NACK_LIMIT + 1, NACK_LIMIT + 2}

QaPackets ==
    {EnvPacket(sh, 0, 0, {}, PayloadLen(0)) : sh \in {Syn, SynAck}}
    \cup {EnvPacket(Data, seqn, 0, {}, PayloadLen(seqn)) : seqn \in QaSeqns}

NextQuickAck ==
    \/ Deliver(QaPackets, Calm, Emitting)
    \/ AsyncSend({1}, 1, Emitting)
    \/ RunPosted(Calm, Emitting)
    \/ FireAckTimer(Calm, Emitting)
    \/ AbortedAckTimer(Calm, Emitting)

SpecQuickAck == Init /\ [][NextQuickAck]_vars

\* the packets of SendQuickAck among those the last handler emitted: seqn 0
\* and no SYN
QuickAcks == {p \in Elements(stream.out) : p.seqn = 0 /\ ~IsSYN(p)}

\* the seqns above m_LastReceivedSequenceNumber and up to n that are not held
\* in m_SavedPackets
MissingUpTo(s, n) ==
    ((s.m_LastReceivedSequenceNumber + 1) .. n) \ SavedSeqns(s)

\* the highest seqn received
HighestReceived(s) == SetMax(SavedSeqns(s) \cup {s.m_LastReceivedSequenceNumber})

\* C24: a quick ack acknowledges only what was received and carries at most
\* 255 NACKs: each seqn up to its ackThrough is at most
\* m_LastReceivedSequenceNumber, held in m_SavedPackets or listed as a NACK,
\* and each NACK is a seqn above m_LastReceivedSequenceNumber and below
\* ackThrough that is not in m_SavedPackets.  Without choking, ackThrough is
\* the highest seqn received and the NACKs are exactly the missing seqns; when
\* the gaps need more than 255 NACKs, the ack carries DELAY_REQUESTED with the
\* delay DELAY_CHOKING and ackThrough is the last seqn received that the NACKs
\* reach.
QuickAckSound ==
    \A p \in QuickAcks :
        LET last == stream.m_LastReceivedSequenceNumber
            missing == MissingUpTo(stream, HighestReceived(stream))
        IN /\ Cardinality(p.nacks) <= NACK_LIMIT - 1
           /\ p.nacks = MissingUpTo(stream, p.ack)
           /\ \A n \in p.nacks : last < n /\ n < p.ack
           /\ p.ack \in SavedSeqns(stream) \cup {last}
           /\ IF Cardinality(missing) <= NACK_LIMIT - 1
              THEN /\ p.flags = {}
                   /\ p.ack = HighestReceived(stream)
                   /\ p.nacks = missing
              ELSE /\ p.flags = {"DELAY"}
                   /\ p.delay = DELAY_CHOKING
                   /\ p.ack < HighestReceived(stream)
                   /\ \A k \in SavedSeqns(stream) :
                          k > p.ack => Cardinality(MissingUpTo(stream, k)) >= NACK_LIMIT

\* a quick ack with NACKs that chokes: its ackThrough is a saved seqn below
\* the highest one
ChokingQuickAck ==
    \E p \in QuickAcks :
        /\ "DELAY" \in p.flags
        /\ p.nacks # {}
        /\ p.ack \in SavedSeqns(stream)

(***************************************************************************)
(* SpecLink: two endpoints over a lossless tunnel that keeps the order of  *)
(* the packets in each direction.  `stream` is A's outgoing stream, `peer` *)
(* the stream B's destination creates for A's SYN; net.A holds the packets *)
(* A has handed to the tunnel that have not reached B yet, net.B those of  *)
(* B, net.wire every packet handed to the tunnel, by whom, in order.  A's  *)
(* application calls Send and then Close (app counts its calls), B's       *)
(* reads.  The round trip is shorter than the retransmission timeout:      *)
(* the resend timers do not complete.                                      *)
(***************************************************************************)
Ends == {"A", "B"}
End(e) == IF e = "A" THEN stream ELSE peer
Other(e) == IF e = "A" THEN "B" ELSE "A"
Wire(e, packets) == [i \in 1 .. Len(packets) |-> [from |-> e, p |-> packets[i]]]

\* a handler of endpoint e has turned its stream into s2; `taken` tells
\* whether it was handed the oldest packet in flight to e
LinkStep(e, s2, taken) ==
    \E r \in {s2} :
        /\ stream' = IF e = "A" THEN Kept(r, Untimed) ELSE stream
        /\ peer' = IF e = "B" THEN Kept(r, Untimed) ELSE peer
        /\ net' = [net EXCEPT ![Other(e)] = IF taken THEN Tail(@) ELSE @,
                              ![e] = @ \o r.out,
                              !.wire = @ \o Wire(e, r.out)]
        /\ dest' = IF e = "A" /\ r.deleteCalls > stream.deleteCalls
                   THEN DeleteStream(dest, r) ELSE dest

\* A's application calls AsyncSend
LinkSend(lens) ==
    \E len \in lens :
        /\ app = 0
        /\ app' = 1
        /\ LinkStep("A", [Begin(stream, DefaultEnv) EXCEPT
                             !.posted = Append(@, [task |-> "Send", len |-> len])],
                    FALSE)

\* A's application calls Close
LinkClose ==
    /\ app = 1
    /\ app' = 2
    /\ LinkStep("A", Close(Begin(stream, DefaultEnv)), FALSE)

\* the oldest packet in flight to e reaches e's destination, which hands it to
\* the stream
LinkDeliver(e) ==
    /\ net[Other(e)] # <<>>
    /\ FirstPacketOK(End(e), Head(net[Other(e)]))
    /\ LinkStep(e, Note(End(e), Head(net[Other(e)]),
                        HandleNextPacket(Begin(End(e), DefaultEnv),
                                         Head(net[Other(e)]))), TRUE)
    /\ UNCHANGED app

LinkRunPosted(e) ==
    /\ End(e).posted # <<>>
    /\ LET h == Head(End(e).posted)
           s == [Begin(End(e), DefaultEnv) EXCEPT !.posted = Tail(@)]
       IN LinkStep(e, IF h.task = "Send"
                      THEN SendBuffer([s EXCEPT !.m_SendBuffer = @ + h.len])
                      ELSE SendPacket(s, h.packet), FALSE)
    /\ UNCHANGED app

LinkSendTimer(e) ==
    /\ End(e).m_SendTimer = 0
    /\ LinkStep(e, HandleSendTimer(Begin(End(e), DefaultEnv)), FALSE)
    /\ UNCHANGED app

LinkAckTimer(e) ==
    /\ End(e).m_AckSendTimer = 0
    /\ LinkStep(e, HandleAckSendTimer([Begin(End(e), DefaultEnv) EXCEPT
                                          !.m_AckSendTimer = -1]), FALSE)
    /\ UNCHANGED app

LinkAbortedAckTimer(e) ==
    /\ End(e).ackAborted > 0
    /\ LinkStep(e, HandleAckSendTimer([Begin(End(e), DefaultEnv) EXCEPT
                                          !.ackAborted = @ - 1]), FALSE)
    /\ UNCHANGED app

\* B's application reads the oldest packet of the receive queue
LinkReceive ==
    /\ peer.m_ReceiveQueue # <<>>
    /\ LinkStep("B", [Begin(peer, DefaultEnv) EXCEPT !.m_ReceiveQueue = Tail(@)], FALSE)
    /\ UNCHANGED app

LinkInit ==
    /\ \E parity \in {0, 1} :
           stream = [NewStream(LocalID, TRUE) EXCEPT !.parity = parity]
    /\ peer = NewStream(PeerID, FALSE)
    /\ dest = InitDest(FALSE)
    /\ net = [A |-> <<>>, B |-> <<>>, wire |-> <<>>]
    /\ app = 0

LinkNext ==
    \/ LinkSend({1})
    \/ LinkClose
    \/ LinkReceive
    \/ \E e \in Ends : LinkDeliver(e)
    \/ \E e \in Ends : LinkRunPosted(e)
    \/ \E e \in Ends : LinkSendTimer(e)
    \/ \E e \in Ends : LinkAckTimer(e)
    \/ \E e \in Ends : LinkAbortedAckTimer(e)

SpecLink == LinkInit /\ [][LinkNext]_vars

(***************************************************************************)
(* Properties of the exchange.                                             *)
(***************************************************************************)
\* the packets with CLOSE that endpoint e has handed to the tunnel
ClosesOf(e) ==
    {i \in 1 .. Len(net.wire) : net.wire[i].from = e /\ "CLOSE" \in net.wire[i].p.flags}

\* nothing is in flight, posted or waiting to be acknowledged
LinkQuiet ==
    /\ net.A = <<>> /\ net.B = <<>>
    /\ \A e \in Ends : /\ End(e).posted = <<>>
                       /\ End(e).m_AckSendTimer = -1
                       /\ End(e).ackAborted = 0

\* C3: over the lossless tunnel, once A's application has called Send and then
\* Close, at whatever points of the event loop's run, and the exchange has come
\* to rest, A's stream is Terminated, B's stream is Closed or Terminated and
\* has been given exactly A's data; and each endpoint hands one packet with
\* CLOSE to the tunnel, with seqn 1.
OpenWriteClose ==
    /\ \A e \in Ends : Cardinality(ClosesOf(e)) <= 1
    /\ \A i \in 1 .. Len(net.wire) :
           "CLOSE" \in net.wire[i].p.flags => net.wire[i].p.seqn = 1
    /\ (app = 2 /\ LinkQuiet) =>
           /\ stream.m_Status = "Terminated"
           /\ peer.m_Status \in {"Closed", "Terminated"}
           /\ peer.delivered = <<0>>

\* C27: a stream emits at most one CLOSE packet in its lifetime: over any
\* sequence of Close calls, acknowledgements, SendBuffer runs in status Closing
\* and received CLOSE packets, SendClose is executed at most once per stream.
OneCloseSent ==
    \A e \in Ends : End(e).closesSent <= 1 /\ Cardinality(ClosesOf(e)) <= 1

(***************************************************************************)
(* SpecAck: the two endpoints of SpecLink over a tunnel that does not keep  *)
(* the order of the packets: any packet in flight may be the next to       *)
(* arrive.  A's application sends more than one packet holds and closes,   *)
(* B's sends once it has answered the SYN.                                 *)
(***************************************************************************)
\* the sequence q without its i-th element
Without(q, i) == [k \in 1 .. Len(q) - 1 |-> IF k < i THEN q[k] ELSE q[k + 1]]

\* the packet in flight to e at position i reaches e's destination, which
\* hands it to the stream
LinkDeliverAt(e) ==
    \E i \in 1 .. Len(net[Other(e)]) :
        LET p == net[Other(e)][i]
        IN /\ FirstPacketOK(End(e), p)
           /\ \E r \in {Note(End(e), p, HandleNextPacket(Begin(End(e), DefaultEnv), p))} :
                  /\ stream' = IF e = "A" THEN Kept(r, Untimed) ELSE stream
                  /\ peer' = IF e = "B" THEN Kept(r, Untimed) ELSE peer
                  /\ net' = [net EXCEPT ![Other(e)] = Without(@, i),
                                        ![e] = @ \o r.out,
                                        !.wire = @ \o Wire(e, r.out)]
                  /\ dest' = IF e = "A" /\ r.deleteCalls > stream.deleteCalls
                             THEN DeleteStream(dest, r) ELSE dest
           /\ UNCHANGED app

\* B's application calls AsyncSend
LinkAnswer(lens) ==
    \E len \in lens :
        /\ peer.m_Status = "Open"
        /\ peer.m_SequenceNumber = 1
        /\ peer.m_SendBuffer = 0
        /\ peer.posted = <<>>
        /\ LinkStep("B", [Begin(peer, DefaultEnv) EXCEPT
                             !.posted = Append(@, [task |-> "Send", len |-> len])],
                    FALSE)
        /\ UNCHANGED app

AckNext ==
    \/ LinkSend({STREAMING_MTU + 1})
    \/ LinkAnswer({1})
    \/ LinkClose
    \/ LinkReceive
    \/ \E e \in Ends : LinkDeliverAt(e)
    \/ \E e \in Ends : LinkRunPosted(e)
    \/ \E e \in Ends : LinkSendTimer(e)
    \/ \E e \in Ends : LinkAckTimer(e)
    \/ \E e \in Ends : LinkAbortedAckTimer(e)

SpecAck == LinkInit /\ [][AckNext]_vars

\* the seqns of the packets awaiting their acknowledgement
SentSeqns(s) == {x.p.seqn : x \in s.m_SentPackets}

\* the seqns a stream has received: processed, or held in m_SavedPackets
ReceivedSeqns(s) == Elements(s.processed) \cup SavedSeqns(s)

\* the seqns of m_SentPackets that the step of endpoint e retires
Retired(e) ==
    IF e = "A" THEN SentSeqns(stream) \ SentSeqns(stream')
    ELSE SentSeqns(peer) \ SentSeqns(peer')

\* C21: a stream retires a packet from m_SentPackets only if the peer stream
\* has received that packet (processed it or holds it in m_SavedPackets); a
\* packet the peer emitted before it received anything, its ackThrough
\* written as 0, does not retire the stream's packet with seqn 0.
AckSoundness ==
    [][\A e \in Ends : Retired(e) \subseteq ReceivedSeqns(End(Other(e)))]_vars

(***************************************************************************)
(* SpecOptions: the options of the peer's packets verify or fail in every  *)
(* way ProcessOptions tells apart; the values a handler assigns to         *)
(* m_Status are kept.                                                      *)
(***************************************************************************)
Logged == Mode(FALSE, FALSE, TRUE)

\* the first packet of an incoming stream
FirstSyns ==
    {Syn, WithOpt(Syn, "rsa"), WithOpt(Syn, "badsig"), SynOffline,
     WithOpt(SynOffline, "badoff"), WithOpt(SynOffline, "toobig"), SynNoFrom}

OptPackets ==
    {EnvPacket(sh, 0, 0, {}, PayloadLen(0)) :
         sh \in FirstSyns \cup {SynAck, WithOpt(SynAck, "badsig")}}
    \cup {EnvPacket(sh, seqn, ack, {}, PayloadLen(seqn)) :
              sh \in {Data, WithOpt(Signed, "badsig"), Offline,
                       WithOpt(Offline, "badoff"), CloseFlag, ResetFlag},
              seqn \in 1 .. MaxSeq, ack \in {0, 1}}

NextOptions ==
    \/ Deliver(OptPackets, Calm, Logged)
    \/ AsyncSend({1}, 1, Logged)
    \/ RunPosted(Calm, Logged)
    \/ ApiClose(Logged)
    \/ FireAckTimer(Calm, Logged)
    \/ AbortedAckTimer(Calm, Logged)

SpecOptions == Init /\ [][NextOptions]_vars

(***************************************************************************)
(* Properties of the status and of option processing.                      *)
(***************************************************************************)
\* status b is earlier than status a on New -> Open -> (Closing -> Closed) |
\* Reset -> Terminated
Earlier(b, a) ==
    \/ b = "New" /\ a # "New"
    \/ b = "Open" /\ a \in {"Closing", "Closed", "Reset", "Terminated"}
    \/ b = "Closing" /\ a \in {"Closed", "Terminated"}
    \/ b # "Terminated" /\ a = "Terminated"

\* C4: m_Status never takes a value earlier than the one it has: over the
\* values a handler assigns to it, starting with the one the handler found,
\* never Closed -> Closing, never Closing, Closed or Reset -> Open, never
\* Terminated -> anything else.
StatusForward ==
    \A i \in 1 .. Len(stream.statusLog) - 1 :
        ~Earlier(stream.statusLog[i + 1], stream.statusLog[i])

\* C9: when HandleNextPacket returns from a packet whose signature failed to
\* verify in ProcessOptions, m_Status is Closing, Closed or Terminated, whatever
\* it was before, the first SYN of an incoming stream included.
SignatureFailureCloses ==
    stream.sigFailed => stream.m_Status \in {"Closing", "Closed", "Terminated"}

\* C10: once ProcessOptions has rejected an in-order packet, the packet's
\* payload has not been pushed to the receive queue (nor anything after it),
\* m_LastReceivedSequenceNumber is what it was, the stream is Terminated and
\* the destination's m_Streams and m_IncomingStreams no longer hold it.
RejectedOptionsTerminate ==
    stream.rejected # <<>> =>
        /\ stream.delivered = stream.rejected[1].delivered
        /\ stream.m_LastReceivedSequenceNumber = stream.rejected[1].last
        /\ stream.rejected[1].seqn = stream.rejected[1].last + 1
        /\ stream.m_Status = "Terminated"
        /\ stream.m_RecvStreamID \notin dest.m_Streams
        /\ stream.m_SendStreamID \notin dest.m_IncomingStreams

\* a packet with payload has been rejected by a stream that had queued
\* payload before
RejectedWithPayload ==
    /\ stream.rejected # <<>>
    /\ stream.rejected[1].len > 0
    /\ stream.rejected[1].delivered # <<>>
    /\ stream.m_SendStreamID = PeerID

\* C22: the payload of a packet whose signature fails to verify is not pushed
\* to the receive queue and does not advance m_LastReceivedSequenceNumber: the
\* CLOSE that ProcessOptions sets on the failure takes effect in ProcessPacket
\* for that packet.
BadSignatureDropsPayload ==
    [][\A p \in OptPackets :
           (/\ FirstPacketOK(stream, p)
            /\ stream' = Kept(Note(stream, p, HandleNextPacket(Begin(stream, DefaultEnv), p)),
                              Logged)
            /\ stream'.sigFailed)
           => /\ stream'.delivered = stream.delivered
              /\ stream'.m_ReceiveQueue = stream.m_ReceiveQueue
              /\ stream'.m_LastReceivedSequenceNumber = stream.m_LastReceivedSequenceNumber
      ]_vars

(***************************************************************************)
(* SpecCongestion: time passes.  An incoming stream answers the SYN and    *)
(* sends; the peer acknowledges and requests delays, the timers complete   *)
(* when they are due, the tunnel in use fails, the SYN is seen again and   *)
(* another stream of the routing session publishes its routing path.       *)
(***************************************************************************)
Timed == Mode(TRUE, FALSE, FALSE)

CcPackets ==
    {EnvPacket(Syn, 0, 0, {}, 0)}
    \cup {EnvPacket(Data, 0, ack, {}, 0) : ack \in 0 .. MaxSend - 1}
    \cup {EnvPacket(DelayRequest(d), seqn, 0, {}, 0) :
              d \in {1, DELAY_CHOKING}, seqn \in 1 .. MaxSeq - 1}

InitIncoming == InitWith({FALSE}, {0})

NextCongestion ==
    \/ Deliver(CcPackets, Faulty, Timed)
    \/ AsyncSend({1}, MaxSend - 1, Timed)
    \/ RunPosted(Faulty, Timed)
    \/ FireSendTimer(Faulty, Timed)
    \/ FireResendTimer(Faulty, Timed)
    \/ FireAckTimer(Faulty, Timed)
    \/ AbortedAckTimer(Faulty, Timed)
    \/ DuplicateSYN(Timed)
    \/ PublishPath({0}, Timed)
    \/ Tick(Timed)

SpecCongestion == InitIncoming /\ [][NextCongestion]_vars

(***************************************************************************)
(* Properties of congestion control.                                       *)
(***************************************************************************)
\* C5: in every reachable state MIN_WINDOW_SIZE <= m_WindowSize <=
\* MAX_WINDOW_SIZE, whatever acknowledgements, halvings, resets to
\* INITIAL_WINDOW_SIZE and choke requests have occurred.
WindowWithinBounds ==
    /\ MIN_WINDOW_SIZE <= stream.m_WindowSize
    /\ stream.m_WindowSize <= MAX_WINDOW_SIZE

\* acknowledgements have opened the window to MAX_WINDOW_SIZE, past an RTT
\* sample, while a sent packet still awaits its acknowledgement
WindowFullyOpen ==
    /\ stream.m_WindowSize = MAX_WINDOW_SIZE
    /\ stream.paced
    /\ stream.m_SentPackets # {}

\* C6: in every reachable state m_RTO >= MIN_RTO: after an RTT sample, after
\* SendPackets adopts the shared routing path's RTT or selects a fresh tunnel,
\* after HandleResendTimer caps m_RTO and after ResetRoutingPath.
RtoAtLeastMin == stream.m_RTO >= MIN_RTO

\* RTT and jitter are so small that m_RTT * 1.3 + m_Jitter is below MIN_RTO,
\* and m_RTO is MIN_RTO
RtoClamped ==
    /\ RtoOf(stream.m_RTT, stream.m_Jitter) < MIN_RTO
    /\ stream.m_RTO = MIN_RTO
    /\ stream.paced

\* C7: once UpdatePacingTime has run, in every reachable state m_PacingTime is
\* max (m_MinPacingTime, round (m_RTT * 1000 / m_WindowSize)) for the current
\* m_RTT and m_WindowSize.
PacingFollowsWindow ==
    stream.paced => stream.m_PacingTime = UpdatePacingTime(stream).m_PacingTime

TimedLogged == Mode(TRUE, FALSE, TRUE)

\* the SYN for which the destination creates the incoming stream
CreatingSyn ==
    IF ~stream.m_RemoteLeaseSet /\ stream.processed = <<>>
    THEN {EnvPacket(Syn, 0, 0, {}, 0)} ELSE {}

NextResend ==
    \/ Deliver(CreatingSyn, Envs, TimedLogged)
    \/ AsyncSend({1}, MaxSend - 1, TimedLogged)
    \/ RunPosted(Envs, TimedLogged)
    \/ FireSendTimer(Envs, TimedLogged)
    \/ FireResendTimer(Envs, TimedLogged)
    \/ Tick(TimedLogged)

FairLoop ==
    /\ WF_vars(RunPosted(Envs, TimedLogged))
    /\ WF_vars(FireSendTimer(Envs, TimedLogged))
    /\ WF_vars(FireResendTimer(Envs, TimedLogged))
    /\ WF_vars(Tick(TimedLogged))

SpecResend == InitWith(BOOLEAN, {0}) /\ [][NextResend]_vars /\ FairLoop

\* the handler that just ran set m_Status to Reset and closed the stream
ResetAndClosed ==
    /\ stream.m_Status = "Terminated"
    /\ Len(stream.statusLog) = 3
    /\ stream.statusLog[2] = "Reset"
    /\ stream.statusLog[3] = "Terminated"

\* C8: when no packet of the peer arrives, a stream never counts more than
\* MAX_NUM_RESEND_ATTEMPTS timeout resends, and a stream that is not Terminated
\* and holds an unacknowledged packet in m_SentPackets is eventually set to
\* Reset and closed, ending Terminated.
ResendGivesUp ==
    /\ [](stream.m_NumResendAttempts <= MAX_NUM_RESEND_ATTEMPTS)
    /\ (stream.m_Status # "Terminated" /\ stream.m_SentPackets # {}) ~> ResetAndClosed

\* the stream was reset and closed with its packet still unacknowledged, the
\* resend attempts used up
GaveUpResending ==
    /\ ResetAndClosed
    /\ stream.m_NumResendAttempts = MAX_NUM_RESEND_ATTEMPTS
    /\ stream.m_SentPackets # {}

(***************************************************************************)
(* SpecTimeout: time passes.  An incoming stream answers the SYN and       *)
(* sends; the peer acknowledges some packets and not others.  The tunnel   *)
(* pool has two tunnels, the lease set two leases, the tunnel in use is    *)
(* established.                                                            *)
(***************************************************************************)
Rotating == [tunnelUp : {TRUE}, rnd : {0, 1}, tunnels : {2}, leases : {2}]

ToPackets ==
    {EnvPacket(Syn, 0, 0, {}, 0)}
    \cup {EnvPacket(Data, 0, ack, {}, 0) : ack \in 0 .. MaxSend - 1}

NextTimeout ==
    \/ Deliver(ToPackets, Rotating, Timed)
    \/ AsyncSend({1}, MaxSend - 1, Timed)
    \/ RunPosted(Rotating, Timed)
    \/ FireSendTimer(Rotating, Timed)
    \/ FireResendTimer(Rotating, Timed)
    \/ Tick(Timed)

SpecTimeout == InitIncoming /\ [][NextTimeout]_vars

\* HandleResendTimer has m_RTO at most INITIAL_RTO when it calls ResendPacket,
\* which then finds a packet of m_SentPackets that is overdue
FindsOverdue(s) ==
    /\ ~GiveUp(s)
    /\ \E e \in s.m_SentPackets : Overdue(e, Min(s.m_RTO, INITIAL_RTO))

\* C26: every resend on a timeout (HandleResendTimer runs and ResendPacket
\* finds an overdue packet) sets m_RTO to INITIAL_RTO and m_WindowSize to
\* INITIAL_WINDOW_SIZE, clears the shared routing path and rotates the path:
\* to another outbound tunnel when the attempt's number is odd, the first
\* attempt included, to another remote lease when it is even; whatever m_RTO
\* was before the timeout.
TimeoutResendResets ==
    [][\A env \in Rotating :
           (/\ stream.m_ResendTimer = 0
            /\ FindsOverdue(stream)
            /\ stream' = Kept(HandleResendTimer(Begin(stream, env)), Timed))
           => /\ stream'.m_RTO = INITIAL_RTO
              /\ stream'.m_WindowSize = INITIAL_WINDOW_SIZE
              /\ ~stream'.sharedPath.set
              /\ stream'.m_NumResendAttempts = stream.m_NumResendAttempts + 1
              /\ IF stream'.m_NumResendAttempts % 2 = 1
                 THEN stream'.m_CurrentOutboundTunnel # stream.m_CurrentOutboundTunnel
                 ELSE stream'.m_CurrentRemoteLease # stream.m_CurrentRemoteLease
      ]_vars

(***************************************************************************)
(* SpecPeer: the packets of the peer carry any ackThrough and any          *)
(* receiveStreamID.  net is the set of receiveStreamIDs of the packets     *)
(* that have reached the stream since its m_SendStreamID was set.          *)
(***************************************************************************)
OtherID == 8     \* a receiveStreamID that is not the peer's

\* the peer's packets, their receiveStreamID replaced
Readdressed(packets, rids) == {[p EXCEPT !.rid = r] : p \in packets, r \in rids}

PeerPackets ==
    Readdressed({EnvPacket(sh, 0, 0, {}, PayloadLen(0)) : sh \in {Syn, SynAck}}
                \cup {EnvPacket(Data, seqn, ack, {}, PayloadLen(seqn)) :
                          seqn \in 0 .. MaxSeq, ack \in {0, MaxSend}},
                {0, PeerID, OtherID})

\* the stream after Stream::HandleNextPacket for packet p
Handled(s, p, env) == Kept(Note(s, p, HandleNextPacket(Begin(s, env), p)), Untimed)

\* a packet arrives for the stream
PeerDeliver ==
    \E p \in PeerPackets :
        /\ FirstPacketOK(stream, p)
        /\ stream' = Handled(stream, p, DefaultEnv)
        /\ net' = IF stream.m_SendStreamID # 0 THEN net \cup {p.rid} ELSE net
        /\ UNCHANGED <<peer, dest, app>>

PeerInit ==
    /\ \E outgoing \in BOOLEAN, parity \in {0, 1} :
        /\ stream = [NewStream(LocalID, outgoing) EXCEPT !.parity = parity]
        /\ dest = InitDest(~outgoing)
    /\ peer = 0 /\ net = {} /\ app = 0

NextPeer ==
    \/ PeerDeliver
    \/ AsyncSend({1}, MaxSend, Untimed)
    \/ RunPosted(Calm, Untimed)
    \/ Receive(Untimed)

SpecPeer == PeerInit /\ [][NextPeer]_vars

\* C11: a packet whose ackThrough is greater than m_SequenceNumber leaves
\* m_SentPackets, m_WindowSize, m_IsNAcked, m_LastReceivedSequenceNumber,
\* m_SavedPackets, the receive queue and m_Status as they were before
\* HandleNextPacket.
AckBeyondSequenceIgnored ==
    [][\A p \in PeerPackets :
           (/\ p.ack > stream.m_SequenceNumber
            /\ ~IsNoAck(p)
            /\ FirstPacketOK(stream, p)
            /\ stream' = Handled(stream, p, DefaultEnv))
           => /\ stream'.m_SentPackets = stream.m_SentPackets
              /\ stream'.m_WindowSize = stream.m_WindowSize
              /\ stream'.m_IsNAcked = stream.m_IsNAcked
              /\ stream'.m_LastReceivedSequenceNumber
                     = stream.m_LastReceivedSequenceNumber
              /\ stream'.m_SavedPackets = stream.m_SavedPackets
              /\ stream'.m_ReceiveQueue = stream.m_ReceiveQueue
              /\ stream'.m_Status = stream.m_Status]_vars

\* C19: once m_SendStreamID is not 0, no step changes it, whatever
\* receiveStreamID the later packets carry.
SendStreamIDSetOnce ==
    [][stream.m_SendStreamID # 0
       => stream'.m_SendStreamID = stream.m_SendStreamID]_vars

\* packets with another receiveStreamID have reached the stream after it had
\* learned m_SendStreamID, and it has processed a packet in sequence since
SendStreamIDKept ==
    /\ stream.m_SendStreamID # 0
    /\ \E r \in net : r # 0 /\ r # stream.m_SendStreamID
    /\ Len(stream.processed) >= 2

(***************************************************************************)
(* SpecNack: the peer's acknowledgements carry any ackThrough and any      *)
(* NACK list.  The stream sends one packet at a time, when the send timer  *)
(* allows it; the resend timer does not complete.                          *)
(***************************************************************************)
NackPackets ==
    {EnvPacket(sh, 0, 0, {}, 0) : sh \in {Syn, SynAck}}
    \cup {EnvPacket(Data, 0, ack, nacks, 0) :
              ack \in 0 .. MaxSend, nacks \in SUBSET (0 .. MaxSend - 1)}

NextNack ==
    \/ Deliver(NackPackets, Calm, Untimed)
    \/ AsyncSend({1}, MaxSend, Untimed)
    \/ RunPosted(Calm, Untimed)
    \/ FireSendTimer(Calm, Untimed)

SpecNack == Init /\ [][NextNack]_vars

\* the seqns of m_SentPackets that packet p acknowledges: up to its
\* ackThrough and not in its NACK list
Acknowledged(s, p) ==
    {k \in SentSeqns(s) : k <= p.ack /\ k \notin p.nacks}

\* C23: ProcessAck for a packet with ackThrough <= m_SequenceNumber removes
\* from m_SentPackets exactly the packets with seqn <= ackThrough whose seqn is
\* not in the packet's NACK list: every NACKed packet and every packet with
\* seqn > ackThrough stays; m_IsNAcked is set when a packet still in
\* m_SentPackets was NACKed.
AckRetiresExactly ==
    [][\A p \in NackPackets :
           (/\ p.ack <= stream.m_SequenceNumber
            /\ ~IsNoAck(p)
            /\ stream.m_Status # "Terminated"
            /\ FirstPacketOK(stream, p)
            /\ stream' = Handled(stream, p, DefaultEnv))
           => /\ SentSeqns(stream) \cap SentSeqns(stream')
                     = SentSeqns(stream) \ Acknowledged(stream, p)
              /\ stream.m_SentPackets \cap stream'.m_SentPackets
                     = {x \in stream.m_SentPackets : x.p.seqn \in SentSeqns(stream')}
              /\ (\E k \in SentSeqns(stream) : k <= p.ack /\ k \in p.nacks)
                     => stream'.m_IsNAcked
      ]_vars

\* the packet with seqn 1 awaits its acknowledgement after the packets with
\* seqn 0 and 2 were retired: an ackThrough of 2 came with a NACK of 1
NackedStays ==
    /\ SentSeqns(stream) = {1}
    /\ stream.m_SequenceNumber = MaxSend
    /\ stream.m_IsNAcked

(***************************************************************************)
(* SpecShutdown: the application sends and closes in any order, also after *)
(* the stream was closed; the peer acknowledges and closes.                *)
(***************************************************************************)
ShutPackets ==
    {EnvPacket(sh, 0, 0, {}, 0) : sh \in {Syn, SynAck}}
    \cup {EnvPacket(Data, 0, ack, {}, 0) : ack \in 0 .. MaxSend - 1}
    \cup {EnvPacket(CloseFlag, 1, ack, {}, 0) : ack \in 0 .. MaxSend - 1}

NextShutdown ==
    \/ Deliver(ShutPackets, Calm, Untimed)
    \/ AsyncSend({1}, MaxSend, Untimed)
    \/ RunPosted(Calm, Untimed)
    \/ ApiClose(Untimed)
    \/ FireSendTimer(Calm, Untimed)

SpecShutdown == Init /\ [][NextShutdown]_vars

\* the packets without CLOSE that the step puts in m_SentPackets with a seqn
\* the stream had not used
NewData ==
    {x \in stream'.m_SentPackets :
         /\ x.p.seqn >= stream.m_SequenceNumber
         /\ "CLOSE" \notin x.p.flags}

\* C28: once a stream has emitted its CLOSE packet (m_Status is Closed) or is
\* Terminated, it emits no data packet with a new seqn: a later AsyncSend
\* never has SendBuffer packetize and transmit data with a seqn above the
\* CLOSE.
NoDataAfterClose ==
    [][stream.m_Status \in {"Closed", "Terminated"} => NewData = {}]_vars

(***************************************************************************)
(* SpecChoke: the peer acknowledges and sends the choke acks its           *)
(* SendQuickAck makes; the stream sends and its ack timer completes.       *)
(***************************************************************************)
\* the quick ack of a choking peer: seqn 0, DELAY_REQUESTED its only flag
ChokeAcks ==
    {EnvPacket(DelayRequest(DELAY_CHOKING), 0, ack, {}, 0) : ack \in 0 .. MaxSend - 1}

ChokePackets ==
    {EnvPacket(sh, 0, 0, {}, 0) : sh \in {Syn, SynAck}}
    \cup {EnvPacket(Data, seqn, 0, {}, 0) : seqn \in 1 .. MaxSeq}
    \cup ChokeAcks

NextChoke ==
    \/ Deliver(ChokePackets, Calm, Untimed)
    \/ AsyncSend({1}, MaxSend - 1, Untimed)
    \/ RunPosted(Calm, Untimed)
    \/ FireSendTimer(Calm, Untimed)
    \/ FireAckTimer(Calm, Untimed)
    \/ AbortedAckTimer(Calm, Untimed)

SpecChoke == Init /\ [][NextChoke]_vars

\* C25: when a stream that has received a packet
\* (m_LastReceivedSequenceNumber >= 0) gets the peer's choke ack, a packet
\* with seqn 0 whose only flag is DELAY_REQUESTED with a delay of
\* DELAY_CHOKING or more, its m_WindowSize becomes 1, whether an ack is
\* scheduled or not.
ChokeAckShrinksWindow ==
    [][\A p \in ChokeAcks :
           (/\ stream.m_LastReceivedSequenceNumber >= 0
            /\ stream.m_Status # "Terminated"
            /\ stream' = Handled(stream, p, DefaultEnv))
           => stream'.m_WindowSize = 1
      ]_vars

(***************************************************************************)
(* SpecAttempts: time passes.  An incoming stream answers the SYN and      *)
(* sends; the peer acknowledges with any ackThrough and any NACK list, the *)
(* send and resend timers complete when they are due.                      *)
(***************************************************************************)
AttemptPackets ==
    {EnvPacket(Syn, 0, 0, {}, 0)}
    \cup {EnvPacket(Data, 0, ack, nacks, 0) :
              ack \in 0 .. MaxSend - 1, nacks \in SUBSET (0 .. MaxSend - 2)}

NextAttempts ==
    \/ Deliver(AttemptPackets, Calm, Timed)
    \/ AsyncSend({1}, MaxSend - 1, Timed)
    \/ RunPosted(Calm, Timed)
    \/ FireSendTimer(Calm, Timed)
    \/ FireResendTimer(Calm, Timed)
    \/ Tick(Timed)

SpecAttempts == InitIncoming /\ [][NextAttempts]_vars

\* C31: m_NumResendAttempts is within 0 .. MAX_NUM_RESEND_ATTEMPTS in every
\* reachable state; a ProcessAck that retires at least one packet of
\* m_SentPackets sets it to 0, and for an acknowledgement that retires nothing
\* (it only NACKs, or acknowledges nothing new) the handler leaves its value
\* as it was.
AttemptsResetByAck ==
    /\ [](stream.m_NumResendAttempts \in 0 .. MAX_NUM_RESEND_ATTEMPTS)
    /\ [][\A p \in AttemptPackets :
              (/\ ~IsNoAck(p)
               /\ p.ack <= stream.m_SequenceNumber
               /\ stream.m_Status # "Terminated"
               /\ stream' = Kept(Note(stream, p,
                                      HandleNextPacket(Begin(stream, DefaultEnv), p)),
                                 Timed))
              => stream'.m_NumResendAttempts
                     = IF Acknowledged(stream, p) # {} THEN 0
                       ELSE stream.m_NumResendAttempts
         ]_vars

\* a packet that was resent still awaits its acknowledgement, NACKed, after an
\* acknowledgement that retired a later packet set m_NumResendAttempts to 0
AttemptsResetWhileNacked ==
    /\ stream.m_NumResendAttempts = 0
    /\ stream.m_IsNAcked
    /\ \E e \in stream.m_SentPackets : e.resent

(***************************************************************************)
(* Properties of m_SavedPackets, checked in SpecOptions.                   *)
(***************************************************************************)
\* the saved packets are ahead of the next seqn in sequence, one per seqn
SavedAhead(s) ==
    /\ \A p \in s.m_SavedPackets : p.seqn > s.m_LastReceivedSequenceNumber + 1
    /\ \A p, q \in s.m_SavedPackets : p.seqn = q.seqn => p = q

\* C32, as claimed: in every reachable state of a stream, Closing, Closed,
\* Reset and Terminated included, m_SavedPackets holds only packets with seqn >
\* m_LastReceivedSequenceNumber + 1 and no two packets of the same seqn.
SavedPacketsAhead == SavedAhead(stream)

\* C32, amended: the same in every reachable state of a stream that is not
\* Terminated.
SavedPacketsAheadWhileLive ==
    stream.m_Status # "Terminated" => SavedAhead(stream)

\* a stream the application has closed holds a packet saved ahead of sequence
\* after packets arrived in sequence
SavedWhileClosed ==
    /\ stream.m_Status \in {"Closing", "Closed"}
    /\ stream.m_SavedPackets # {}
    /\ stream.m_LastReceivedSequenceNumber >= 0

(***************************************************************************)
(* Properties of pacing, checked in SpecAttempts.                          *)
(***************************************************************************)
\* C33: between two consecutive events that set m_IsSendTime (the send timer
\* or the resend timer completing; the constructor before the first) a stream
\* transmits at most one packet through SendBuffer or ResendPacket, and
\* SendBuffer never makes a packet with a new seqn, the SYN included, while
\* m_SentPackets holds m_WindowSize packets or more.
PacingGate ==
    /\ stream.gate.sends <= 1
    /\ ~stream.gate.full

\* ResendPacket has sent a packet again since the last send time, and the data
\* in the send buffer waits for the next one
PacedBehindResend ==
    /\ stream.gate.sends = 1
    /\ ~stream.m_IsSendTime
    /\ stream.m_SendBuffer > 0
    /\ \E e \in stream.m_SentPackets : e.resent

\* C34: whenever m_SentPackets is not empty and the stream is not Terminated, a
\* wait of the resend timer is pending (or has expired with its callback yet
\* to run), also in the fast retransmit phases (m_IsNAcked) in which
\* ResendPacket does not call ScheduleResend.
ResendTimerArmed ==
    (stream.m_SentPackets # {} /\ stream.m_Status # "Terminated")
        => stream.m_ResendTimer >= 0

\* a fast retransmit: ResendPacket, run by the send timer for a NACKed packet,
\* has sent the packet again and left the resend timer as it was
FastRetransmitArmed ==
    /\ stream.m_IsNAcked
    /\ stream.gate.sends = 1
    /\ stream.m_NumResendAttempts = 1
    /\ stream.m_Status # "Terminated"
    /\ stream.m_ResendTimer >= 0
    /\ \E e \in stream.m_SentPackets : e.resent

\* C35: after ProcessAck returns with m_SentPackets and the send buffer both
\* empty, neither the resend timer nor the send timer has a wait pending: an
\* idle stream runs no periodic timer.
IdleTimersOff ==
    [][\A p \in AttemptPackets :
           (/\ ~IsNoAck(p)
            /\ p.ack <= stream.m_SequenceNumber
            /\ stream.m_Status # "Terminated"
            /\ stream' = Kept(Note(stream, p,
                                   HandleNextPacket(Begin(stream, DefaultEnv), p)),
                              Timed)
            /\ stream'.m_SentPackets = {}
            /\ stream'.m_SendBuffer = 0)
           => /\ stream'.m_ResendTimer = -1
              /\ stream'.m_SendTimer = -1
      ]_vars

(***************************************************************************)
(* Properties of a Terminated stream, checked in SpecOptions.              *)
(***************************************************************************)
\* the members of Stream the model has, without the timers
StreamFields(s) ==
    <<s.m_SendStreamID, s.m_RecvStreamID, s.m_SequenceNumber,
      s.m_LastReceivedSequenceNumber, s.m_PreviousReceivedSequenceNumber,
      s.m_Status, s.m_IsAckSendScheduled, s.m_IsNAcked, s.m_IsSendTime,
      s.m_IsWinDropped, s.m_IsTimeOutResend, s.m_RemoteLeaseSet,
      s.m_RemoteIdentity, s.m_TransientVerifier, s.m_RoutingSession,
      s.m_CurrentOutboundTunnel, s.m_CurrentRemoteLease, s.m_RTT,
      s.m_WindowSize, s.m_RTO, s.m_PrevRTTSample, s.m_PrevRTT, s.m_Jitter,
      s.m_MinPacingTime, s.m_PacingTime, s.m_NumResendAttempts,
      s.m_SentPackets, s.m_SavedPackets, s.m_ReceiveQueue, s.m_SendBuffer>>

\* no wait of the ack, send and resend timers is pending
NoTimerArmed(s) ==
    s.m_AckSendTimer = -1 /\ s.m_SendTimer = -1 /\ s.m_ResendTimer = -1

\* the callback of a cancelled wait of the ack timer has turned s into s2
AbortedAckCallback(s, s2, m) ==
    /\ s.ackAborted > 0
    /\ s2 = Kept(HandleAckSendTimer([Begin(s, DefaultEnv) EXCEPT !.ackAborted = @ - 1]), m)

\* C36: once a stream is Terminated its ack, send and resend timers are not
\* armed; the callback of a wait that Terminate cancelled assigns nothing to
\* m_Status and leaves every member of the stream as it was, and a packet
\* handed to the stream leaves every member as it was.
TerminatedStreamInert ==
    /\ [](stream.m_Status = "Terminated" => NoTimerArmed(stream))
    /\ [][stream.m_Status = "Terminated" =>
              /\ AbortedAckCallback(stream, stream', Logged)
                     => /\ StreamFields(stream') = StreamFields(stream)
                        /\ stream'.statusLog = <<"Terminated">>
                        /\ NoTimerArmed(stream')
              /\ \A p \in OptPackets :
                     stream' = Kept(Note(stream, p,
                                         HandleNextPacket(Begin(stream, DefaultEnv), p)),
                                    Logged)
                         => StreamFields(stream') = StreamFields(stream)
         ]_vars

(***************************************************************************)
(* SpecSyn: time passes.  An outgoing stream has sent its SYN; the peer's  *)
(* answer and its follow on packets arrive in any order, the timers        *)
(* complete when they are due and the callbacks of cancelled waits of the  *)
(* ack timer run.                                                          *)
(***************************************************************************)
SynPacketsLate ==
    {EnvPacket(SynAck, 0, 0, {}, 0)}
    \cup {EnvPacket(Data, seqn, 0, {}, 1) : seqn \in 1 .. MaxSeq}

NextSyn ==
    \/ Deliver(SynPacketsLate, Calm, TimedLogged)
    \/ AsyncSend({1}, 1, TimedLogged)
    \/ RunPosted(Calm, TimedLogged)
    \/ FireSendTimer(Calm, TimedLogged)
    \/ FireResendTimer(Calm, TimedLogged)
    \/ FireAckTimer(Calm, TimedLogged)
    \/ AbortedAckTimer(Calm, TimedLogged)
    \/ Tick(TimedLogged)

SpecSyn == InitWith({TRUE}, {0}) /\ [][NextSyn]_vars

\* C37: a stream that holds follow on packets and has not received the SYN
\* (m_LastReceivedSequenceNumber < 0) is reset for the missing SYN only when
\* the wait of its ack timer expires, SYN_TIMEOUT after the last ScheduleAck:
\* the callback of the wait that ScheduleAck cancelled when a second packet
\* arrived ahead of the SYN assigns nothing to m_Status.
RearmNeverResets ==
    [][(/\ stream.m_LastReceivedSequenceNumber < 0
        /\ stream.m_SavedPackets # {}
        /\ stream.m_Status # "Terminated"
        /\ AbortedAckCallback(stream, stream', TimedLogged))
           => /\ stream'.m_Status = stream.m_Status
              /\ stream'.statusLog = <<stream.m_Status>>
      ]_vars

\* C38: an RTT sample is never taken from a packet that ResendPacket has
\* transmitted again, however long after its sendTime the retransmission came
\* and whatever its seqn, seqn 0 included.
NoSampleFromResent == ~stream.resentSample

(***************************************************************************)
(* The streaming destination.  A stream is known by its m_RecvStreamID: a  *)
(* pointer to a stream is that id, nullptr is 0, and the streams created   *)
(* are numbered from 1 in the order of creation.  A handler of the         *)
(* destination works on a record w: d the destination, h the streams       *)
(* created so far, ev what the handler did to the application and to the   *)
(* streams, out the packets it handed to the tunnels.                      *)
(***************************************************************************)
\* bounds of the destination's model
MaxStreams == 3       \* streams created
MaxIncoming == 2      \* streams created where follow on packets are saved
MaxSaved == 2         \* follow on packets saved for one receiveStreamID
MaxOnce == 2          \* one-shot acceptors chained
MaxPosted == 2        \* handlers of the destination posted and not yet run
MaxStale == 1         \* waits outliving the saved packets they were started for

MAX_PENDING_INCOMING_BACKLOG == 2

\* the receiveStreamIDs of the peers' incoming streams
ThirdID == 9
Rids == {PeerID, OtherID, ThirdID}
\* a sendStreamID no stream of the destination has
UnknownID == 5

\* m_Owner->IsStreamingAnswerPings ()
AnswerPings == TRUE

\* An acceptor is the chain of the one-shot acceptors bound by AcceptOnce
\* over the acceptor installed by SetAcceptor; the empty std::function is <<>>.
NoAcceptor == <<>>
Installed(name) == <<[name |-> name, once |-> FALSE]>>

Event(ev, who, arg, n) == [ev |-> ev, who |-> who, arg |-> arg, n |-> n]

World(d, h) == [d |-> d, h |-> h, ev |-> <<>>, out |-> <<>>]

NoTimer == [own |-> FALSE, stale |-> 0]

\* StreamingDestination::StreamingDestination
NewDestination ==
    [m_Streams |-> {}, m_IncomingStreams |-> {}, m_LastStream |-> 0,
     incoming |-> [r \in Rids |-> 0],       \* the stream of a key of m_IncomingStreams
     m_SavedPackets |-> [r \in Rids |-> <<>>],
     savedTimers |-> [r \in Rids |-> NoTimer],
                          \* the waits for the saved packets of a receiveStreamID:
                          \* `own` the one started with the entry that exists,
                          \* `stale` those started with earlier entries
     m_PendingIncomingStreams |-> <<>>,
     m_PendingIncomingTimer |-> FALSE,      \* a wait is pending
     m_Acceptor |-> NoAcceptor,
     posted |-> <<>>,                       \* handlers posted to the service
     stopped |-> FALSE]                     \* Stop has run

\* a method of stream i has run and left the stream s2
StreamCall(w, i, s2) ==
    [w EXCEPT !.h[i] = Kept(s2, Untimed),
              !.out = @ \o s2.out,
              !.d = IF s2.deleteCalls > w.h[i].deleteCalls
                    THEN DeleteStream(@, s2) ELSE @]

\* stream->HandleNextPacket (packet)
ToStream(w, i, packet) ==
    StreamCall([w EXCEPT !.ev = Append(@, Event("hand", "", i, packet.seqn))],
               i, HandleNextPacket(Begin(w.h[i], DefaultEnv), packet))

\* the stream put at the end of the backlog where it is to be closed
QueueStream(w, i) == [w EXCEPT !.d.m_PendingIncomingStreams = Append(@, i)]

\* stream->Close ()
CloseStream(w, i) ==
    StreamCall([w EXCEPT !.ev = Append(@, Event("close", "", i, 0))],
               i, Close(Begin(w.h[i], DefaultEnv)))

\* a one-shot acceptor that stays installed after it has been called
InvokeKeeping(w, arg) ==
    IF w.d.m_Acceptor = NoAcceptor
    THEN [w EXCEPT !.ev = Append(@, Event("empty", "", arg, 0))]
    ELSE [w EXCEPT !.ev = Append(@, Event("accept", Head(w.d.m_Acceptor).name, arg, 0))]

\* m_Acceptor (stream): the call of an empty std::function throws
\* std::bad_function_call; AcceptOnceAcceptor restores prev, then calls acceptor
Invoke(w, arg) ==
    IF w.d.m_Acceptor = NoAcceptor
    THEN [w EXCEPT !.ev = Append(@, Event("empty", "", arg, 0))]
    ELSE [w EXCEPT !.d.m_Acceptor = IF Head(@).once THEN Tail(@) ELSE @,
                   !.ev = Append(@, Event("accept", Head(w.d.m_Acceptor).name, arg, 0))]

\* the handler threw: the call of an empty acceptor is the last thing it did
Threw(w) == w.ev # <<>> /\ w.ev[Len(w.ev)].ev = "empty"

\* a pong that carries the ping's receiveStreamID instead of its sendStreamID
PongToReceiveID(packet) ==
    Packet(0, packet.rid, 0, 0, {}, "none", {"ECHO"}, 0, "ok", packet.len)

\* the pong of HandlePing: a minimal header of zeroes, its receiveStreamID the
\* first four bytes of the ping (the ping's sendStreamID), the ECHO flag, and
\* the ping's payload
Pong(packet) ==
    Packet(0, packet.sid, 0, 0, {}, "none", {"ECHO"}, 0, "ok", packet.len)

HandlePing(s, packet) ==
    LET flags == packet.flags
        Options(a) == ProcessOptions(a, flags, packet)
        Emit(a) == SendPackets(a, <<Pong(packet)>>)
        Answer(a) == IF ~OptionsRejected(s, flags, packet) /\ a.m_RemoteIdentity # "none"
                     THEN Then(a, Emit) ELSE a
    IN Then(Then(s, Options), Answer)

\* the ping is handled by a stream that is not registered with the destination
Ping(w, packet) ==
    [w EXCEPT !.out = @ \o HandlePing(NewStream(UnknownID, FALSE), packet).out,
              !.ev = Append(@, Event("ping", "", 0, 0))]

\* m_LastStream after the lookup of the packet's sendStreamID
LastStreamFor(d, sendStreamID) ==
    IF d.m_LastStream = 0 \/ sendStreamID # d.m_LastStream
    THEN (IF sendStreamID \in d.m_Streams THEN sendStreamID ELSE 0)
    ELSE d.m_LastStream

\* StreamingDestination::CreateNewIncomingStream
CreateNewIncomingStream(w, receiveStreamID) ==
    [w EXCEPT !.h = Append(@, NewStream(Len(w.h) + 1, FALSE)),
              !.d.m_Streams = @ \cup {Len(w.h) + 1},
              !.d.m_IncomingStreams = @ \cup {receiveStreamID},
              !.d.incoming[receiveStreamID] = Len(w.h) + 1]

\* the loop over the saved packets of a new incoming stream
RECURSIVE HandSaved(_, _, _)
HandSaved(w, i, packets) ==
    IF packets = <<>> THEN w
    ELSE HandSaved(CHOOSE r \in {ToStream(w, i, Head(packets))} : TRUE,
                   i, Tail(packets))

\* the loop of HandlePendingIncomingTimer: it->Close () for each pending stream
RECURSIVE CloseAll(_, _)
CloseAll(w, ids) ==
    IF ids = <<>> THEN w
    ELSE CloseAll(CHOOSE r \in {CloseStream(w, Head(ids))} : TRUE, Tail(ids))

\* the loop of the handler SetAcceptor posts: the acceptor is called for each
\* pending stream that is still Open
RECURSIVE AcceptAll(_, _)
AcceptAll(w, ids) ==
    IF ids = <<>> \/ Threw(w) THEN w
    ELSE AcceptAll(IF w.h[Head(ids)].m_Status = "Open"
                   THEN (CHOOSE r \in {Invoke(w, Head(ids))} : TRUE) ELSE w,
                   Tail(ids))

\* StreamingDestination::HandleNextPacket
DestHandleNextPacket(w, packet) ==
    LET sendStreamID == packet.sid
        receiveStreamID == packet.rid
        last == LastStreamFor(w.d, sendStreamID)
        id == Len(w.h) + 1
        Look(a) == [a EXCEPT !.d.m_LastStream = last]
        Addressed(a) ==
            IF last # 0 THEN ToStream(a, last, packet)
            ELSE IF IsEcho(packet) /\ AnswerPings THEN Ping(a, packet)
            ELSE a
        \* new incoming stream
        Create(a) == CreateNewIncomingStream(a, receiveStreamID)
        FirstPacket(a) == ToStream(a, id, packet)
        Saved(a) ==
            [HandSaved(a, id, a.d.m_SavedPackets[receiveStreamID]) EXCEPT
                !.d.m_SavedPackets[receiveStreamID] = <<>>]
        Accept(a) ==
            IF a.d.m_Acceptor # NoAcceptor THEN Invoke(a, id)
            ELSE IF Len(a.d.m_PendingIncomingStreams) < MAX_PENDING_INCOMING_BACKLOG
            THEN [a EXCEPT !.d.m_PendingIncomingStreams = Append(@, id),
                           !.d.m_PendingIncomingTimer = TRUE]
            ELSE CloseStream(a, id)
        AlreadyPending(a) ==
            StreamCall(a, a.d.incoming[receiveStreamID],
                       ResetRoutingPath(Begin(a.h[a.d.incoming[receiveStreamID]],
                                              DefaultEnv)))
        Incoming(a) ==
            IF receiveStreamID \in a.d.m_IncomingStreams THEN AlreadyPending(a)
            ELSE Then(Then(Then(Then(a, Create), FirstPacket), Saved), Accept)
        \* follow on packet without SYN
        Save(a) ==
            [a EXCEPT !.d.m_SavedPackets[receiveStreamID] = Append(@, packet),
                      !.d.savedTimers[receiveStreamID] =
                          IF a.d.m_SavedPackets[receiveStreamID] # <<>> THEN @
                          ELSE [own |-> TRUE,
                                stale |-> Min(MaxStale,
                                              @.stale + (IF @.own THEN 1 ELSE 0))]]
        FollowOn(a) ==
            IF receiveStreamID \in a.d.m_IncomingStreams
            THEN ToStream(a, a.d.incoming[receiveStreamID], packet)
            ELSE Save(a)
    IN IF sendStreamID # 0 THEN Then(Then(w, Look), Addressed)
       ELSE IF IsEcho(packet) THEN w
       ELSE IF IsSYN(packet) /\ packet.seqn = 0 THEN Incoming(w)
       ELSE FollowOn(w)

\* the wait started for the saved packets of a receiveStreamID has expired
SavedPacketsTimer(w, receiveStreamID, own) ==
    [w EXCEPT !.d.m_SavedPackets[receiveStreamID] = <<>>,
              !.d.savedTimers[receiveStreamID] =
                  IF own THEN [@ EXCEPT !.own = FALSE]
                  ELSE [@ EXCEPT !.stale = @ - 1],
              !.ev = IF w.d.m_SavedPackets[receiveStreamID] # <<>>
                     THEN Append(@, Event("drop", IF own THEN "own" ELSE "stale",
                                          receiveStreamID,
                                          Len(w.d.m_SavedPackets[receiveStreamID])))
                     ELSE @]

\* StreamingDestination::HandlePendingIncomingTimer, the wait expired
HandlePendingIncomingTimer(w) ==
    [CloseAll(w, w.d.m_PendingIncomingStreams) EXCEPT
        !.d.m_PendingIncomingStreams = <<>>,
        !.d.m_PendingIncomingTimer = FALSE]

\* StreamingDestination::SetAcceptor and the handler it posts
SetAcceptor(w, acceptor) ==
    [w EXCEPT !.d.m_Acceptor = acceptor,
              !.d.posted = Append(@, [task |-> "SetAcceptor", name |-> ""])]

SetAcceptorPosted(w) ==
    LET Loop(a) == AcceptAll(a, a.d.m_PendingIncomingStreams)
        Clear(a) == IF Threw(a) THEN a
                    ELSE [a EXCEPT !.d.m_PendingIncomingStreams = <<>>,
                                   !.d.m_PendingIncomingTimer = FALSE]
    IN Then(Then(w, Loop), Clear)

\* StreamingDestination::ResetAcceptor
ResetAcceptor(w) ==
    LET Call(a) == IF a.d.m_Acceptor # NoAcceptor THEN Invoke(a, 0) ELSE a
        Unset(a) == [a EXCEPT !.d.m_Acceptor = NoAcceptor]
    IN Then(Then(w, Call), Unset)

\* StreamingDestination::AcceptOnce and the handler it posts
AcceptOnce(w, name) ==
    [w EXCEPT !.d.posted = Append(@, [task |-> "AcceptOnce", name |-> name])]

AcceptOncePosted(w, name) ==
    IF w.d.m_PendingIncomingStreams # <<>>
    THEN [w EXCEPT !.ev = Append(@, Event("accept", name,
                                         Head(w.d.m_PendingIncomingStreams), 1)),
                   !.d.m_PendingIncomingStreams = Tail(@),
                   !.d.m_PendingIncomingTimer =
                       IF Tail(w.d.m_PendingIncomingStreams) = <<>> THEN FALSE ELSE @]
    ELSE [w EXCEPT !.d.m_Acceptor = <<[name |-> name, once |-> TRUE]>> \o @]

\* Stop that leaves the streams as they are
StopKeepingStreams(w) == [w EXCEPT !.d.stopped = TRUE]

\* StreamingDestination::Stop
Stop(w) ==
    LET registered == w.d.m_Streams
        Clear(a) == [a EXCEPT !.d.m_PendingIncomingStreams = <<>>,
                              !.d.m_PendingIncomingTimer = FALSE]
        TerminateAll(a) ==
            [a EXCEPT !.h = [i \in DOMAIN a.h |->
                                IF i \in registered
                                THEN Kept(Terminate(Begin(a.h[i], DefaultEnv), FALSE),
                                          Untimed)
                                ELSE a.h[i]]]
        Forget(a) == [a EXCEPT !.d.m_Streams = {}, !.d.m_IncomingStreams = {},
                               !.d.m_LastStream = 0, !.d.stopped = TRUE]
    IN Then(Then(Then(Then(w, ResetAcceptor), Clear), TerminateAll), Forget)

(***************************************************************************)
(* SpecDest: one destination.  stream is the sequence of the streams it    *)
(* has created, dest the destination, app what the last handler did to the *)
(* application and the streams, net the packets the last handler handed to *)
(* the tunnels.  The waits complete at any time; the handlers the streams  *)
(* post and the streams' timers do not run.                                *)
(***************************************************************************)
DestStep(w) ==
    \E r \in {w} :
        /\ dest' = r.d /\ stream' = r.h /\ app' = r.ev /\ net' = r.out
        /\ UNCHANGED peer

\* a packet of a peer: its sendStreamID, its receiveStreamID and its shape
FromPeer(shape, sid, rid, seqn, len) ==
    [EnvPacket(shape, seqn, 0, {}, len) EXCEPT !.sid = sid, !.rid = rid]

EchoSigned == Shape({"ECHO", "FROM", "SIG"}, "ok", 0, "none")
EchoBare == Shape({"ECHO"}, "ok", 0, "none")
SynMismatch == Shape({"SYN", "FROM", "SIG", "NOACK"}, "ok", 0, "bad")

\* the first packets of incoming streams and the packets that follow them
IncomingPackets ==
    {FromPeer(sh, 0, rid, 0, 1) : sh \in {Syn, SynMismatch},
                                  rid \in {PeerID, OtherID}}
    \cup {FromPeer(Data, 0, PeerID, seqn, 1) : seqn \in 1 .. 2}
    \cup {FromPeer(ResetFlag, 0, PeerID, 1, 0)}

SynPackets == {FromPeer(Syn, 0, rid, 0, 1) : rid \in Rids}

\* pings, a pong, and packets addressed to streams
PingPackets ==
    {FromPeer(sh, UnknownID, PeerID, 0, len) :
        sh \in {EchoSigned, WithOpt(EchoSigned, "badsig"), EchoBare},
        len \in {0, 1}}
    \cup {FromPeer(EchoBare, 0, PeerID, 0, 1)}
    \cup {FromPeer(sh, sid, PeerID, 1, 1) : sh \in {Data, EchoBare},
                                             sid \in 1 .. MaxStreams}

\* the packet makes the destination create a stream, save the packet
Creates(d, p) ==
    p.sid = 0 /\ ~IsEcho(p) /\ IsSYN(p) /\ p.seqn = 0 /\ p.rid \notin d.m_IncomingStreams
Saves(d, p) ==
    p.sid = 0 /\ ~IsEcho(p) /\ ~(IsSYN(p) /\ p.seqn = 0) /\ p.rid \notin d.m_IncomingStreams

DestDeliver(packets, streams) ==
    \E p \in packets :
        /\ ~dest.stopped
        /\ Creates(dest, p) => Len(stream) < streams
        /\ Saves(dest, p) => Len(dest.m_SavedPackets[p.rid]) < MaxSaved
        /\ DestStep(DestHandleNextPacket(World(dest, stream), p))

DestSavedTimer ==
    \E rid \in Rids, own \in BOOLEAN :
        /\ IF own THEN dest.savedTimers[rid].own ELSE dest.savedTimers[rid].stale > 0
        /\ DestStep(SavedPacketsTimer(World(dest, stream), rid, own))

DestPendingTimer ==
    /\ dest.m_PendingIncomingTimer
    /\ DestStep(HandlePendingIncomingTimer(World(dest, stream)))

DestSetAcceptor(acceptors) ==
    \E acceptor \in acceptors :
        /\ ~dest.stopped
        /\ Len(dest.posted) < MaxPosted
        /\ DestStep(SetAcceptor(World(dest, stream), acceptor))

DestResetAcceptor ==
    /\ ~dest.stopped
    /\ dest.m_Acceptor # NoAcceptor
    /\ DestStep(ResetAcceptor(World(dest, stream)))

DestAcceptOnce(names) ==
    \E name \in names :
        /\ ~dest.stopped
        /\ Len(dest.posted) < MaxPosted
        /\ \A i \in 1 .. Len(dest.posted) : dest.posted[i].name # name
        /\ \A i \in 1 .. Len(dest.m_Acceptor) : dest.m_Acceptor[i].name # name
        /\ Cardinality({i \in 1 .. Len(dest.m_Acceptor) : dest.m_Acceptor[i].once})
               < MaxOnce
        /\ DestStep(AcceptOnce(World(dest, stream), name))

DestRunPosted ==
    /\ dest.posted # <<>>
    /\ LET task == Head(dest.posted)
           w == World([dest EXCEPT !.posted = Tail(@)], stream)
       IN DestStep(IF task.task = "SetAcceptor" THEN SetAcceptorPosted(w)
                   ELSE AcceptOncePosted(w, task.name))

DestStop ==
    /\ ~dest.stopped
    /\ DestStep(Stop(World(dest, stream)))

DestInit ==
    /\ dest = NewDestination
    /\ stream = <<>>
    /\ app = <<>> /\ net = <<>> /\ peer = 0

NextDest ==
    \/ DestDeliver(IncomingPackets, MaxIncoming)
    \/ DestSavedTimer
    \/ DestPendingTimer
    \/ DestSetAcceptor({Installed("a")})
    \/ DestRunPosted

SpecDest == DestInit /\ [][NextDest]_vars

\* the destination has handled packet p, which made it create a stream
Created(p) ==
    /\ Creates(dest, p) /\ ~dest.stopped
    /\ \E r \in {DestHandleNextPacket(World(dest, stream), p)} :
           dest' = r.d /\ stream' = r.h /\ app' = r.ev /\ net' = r.out

\* C12: when the first packet of an incoming stream carries 8 NACK slots that
\* differ from the local identity hash, then after the destination has handled
\* it the stream is New, no packet has been sent, m_LastReceivedSequenceNumber
\* is -1 and the receive queue and m_SavedPackets are empty.
MismatchLeavesStreamUntouched ==
    [][\A p \in IncomingPackets :
           (p.hash = "bad" /\ Created(p))
           => LET s == stream'[Len(stream) + 1]
              IN /\ s.m_Status = "New"
                 /\ net' = <<>>
                 /\ s.m_LastReceivedSequenceNumber = -1
                 /\ s.m_ReceiveQueue = <<>>
                 /\ s.m_SavedPackets = {}]_vars

\* the last handler created a stream for the SYN of receiveStreamID rid and
\* handed it the SYN, then the packets saved for rid in the order they arrived
FlushedInOrder(rid) ==
    /\ Len(stream') = Len(stream) + 1
    /\ rid \in dest'.m_IncomingStreams \/ stream'[Len(stream')].deleteCalls > 0
    /\ Len(app') >= 1 + Len(dest.m_SavedPackets[rid])
    /\ app'[1] = Event("hand", "", Len(stream'), 0)
    /\ \A k \in DOMAIN dest.m_SavedPackets[rid] :
           app'[k + 1] = Event("hand", "", Len(stream'), dest.m_SavedPackets[rid][k].seqn)

\* the wait started with the packets saved for rid has expired
OwnTimerFired(rid) ==
    dest.savedTimers[rid].own /\ ~dest'.savedTimers[rid].own

\* C14: the follow-on packets saved for a receiveStreamID stay saved, in the
\* order they arrived, until the SYN for that id arrives, and then they are
\* handed to the new stream after the SYN in that order, or until the wait
\* started with them expires, and then they are dropped; either way the entry
\* is removed.
SavedUntilSynOrTimeout ==
    [][\A rid \in Rids :
           dest.m_SavedPackets[rid] # <<>>
           => \/ /\ Len(dest'.m_SavedPackets[rid]) >= Len(dest.m_SavedPackets[rid])
                 /\ SubSeq(dest'.m_SavedPackets[rid], 1, Len(dest.m_SavedPackets[rid]))
                        = dest.m_SavedPackets[rid]
              \/ dest'.m_SavedPackets[rid] = <<>> /\ FlushedInOrder(rid)
              \/ dest'.m_SavedPackets[rid] = <<>> /\ OwnTimerFired(rid)]_vars

\* SpecAccept: the acceptors of a destination and its stop
NextAccept ==
    \/ DestDeliver(SynPackets, MaxStreams)
    \/ DestPendingTimer
    \/ DestSetAcceptor({NoAcceptor, Installed("a")})
    \/ DestResetAcceptor
    \/ DestAcceptOnce({"x", "y"})
    \/ DestRunPosted
    \/ DestStop

SpecAccept == DestInit /\ [][NextAccept]_vars

\* the calls the last handler made of the acceptor `name` with a null stream
NullCalls(events, name) ==
    Cardinality({k \in DOMAIN events :
                    events[k] = Event("accept", name, 0, 0)})

\* C15: SetAcceptor (nullptr), called while an acceptor is installed, calls
\* that acceptor once with a null stream, and no handler of the destination
\* calls an empty acceptor.
SetAcceptorNullNotifies ==
    /\ [][(/\ dest.m_Acceptor # NoAcceptor
            /\ ~dest.stopped
            /\ DestStep(SetAcceptor(World(dest, stream), NoAcceptor)))
           => NullCalls(app', Head(dest.m_Acceptor).name) = 1]_vars
    /\ [](\A k \in DOMAIN app : app[k].ev # "empty")

\* the calls the last handler made of the acceptor `name`
CallsOf(events, name) ==
    {k \in DOMAIN events : events[k].ev = "accept" /\ events[k].who = name}

\* the one-shot acceptor that is m_Acceptor
OneShot == dest.m_Acceptor # NoAcceptor /\ Head(dest.m_Acceptor).once

StopTerminatesAll ==
    [][(~dest.stopped /\ DestStep(Stop(World(dest, stream))))
       => /\ \A i \in dest.m_Streams :
                /\ stream'[i].m_Status = "Terminated"
                /\ stream'[i].deleteCalls = stream[i].deleteCalls
          /\ dest'.m_Streams = {}
          /\ dest'.m_IncomingStreams = {}
          /\ dest'.m_PendingIncomingStreams = <<>>
          /\ dest'.m_LastStream = 0
          /\ dest'.m_Acceptor = NoAcceptor]_vars

\* Stop has run on a destination with an acceptor and two streams, and has
\* called the acceptor with a null stream and terminated both streams
StoppedWithStreams ==
    /\ dest.stopped
    /\ app = <<Event("accept", "a", 0, 0)>>
    /\ Len(stream) >= 2
    /\ \A i \in 1 .. 2 : stream[i].m_Status = "Terminated" /\ stream[i].deleteCalls = 0

\* C13: m_PendingIncomingStreams never holds more than
\* MAX_PENDING_INCOMING_BACKLOG streams, and a stream created while no acceptor
\* is set and the backlog is full has Close called on it and is not queued.
BacklogBounded ==
    /\ [](Len(dest.m_PendingIncomingStreams) <= MAX_PENDING_INCOMING_BACKLOG)
    /\ [][\A p \in SynPackets :
             (/\ Created(p)
              /\ dest.m_Acceptor = NoAcceptor
              /\ Len(dest.m_PendingIncomingStreams) >= MAX_PENDING_INCOMING_BACKLOG)
             => /\ \E k \in DOMAIN app' :
                       app'[k] = Event("close", "", Len(stream) + 1, 0)
                /\ dest'.m_PendingIncomingStreams = dest.m_PendingIncomingStreams]_vars

\* the backlog is full and the stream created last was closed, not queued
BacklogOverflowClosed ==
    /\ Len(dest.m_PendingIncomingStreams) = MAX_PENDING_INCOMING_BACKLOG
    /\ Len(stream) = MAX_PENDING_INCOMING_BACKLOG + 1
    /\ \E k \in DOMAIN app : app[k] = Event("close", "", Len(stream), 0)
    /\ \A k \in DOMAIN dest.m_PendingIncomingStreams :
           dest.m_PendingIncomingStreams[k] # Len(stream)

\* the streams the last handler gave to an acceptor
Accepted == {app[k].arg : k \in {j \in DOMAIN app : app[j].ev = "accept"}} \ {0}

\* the streams of the backlog after the step that were not in it before
NewlyPending ==
    {dest'.m_PendingIncomingStreams[k] : k \in DOMAIN dest'.m_PendingIncomingStreams}
        \ {dest.m_PendingIncomingStreams[k] : k \in DOMAIN dest.m_PendingIncomingStreams}

\* C29: every stream given to an acceptor (when its SYN arrives, by AcceptOnce
\* from the backlog, or when SetAcceptor drains the backlog) is Open when it
\* is given; a stream whose SYN was rejected (options failure, destination
\* mismatch) or that is Terminated is not given to an acceptor nor put in the
\* backlog.
AcceptedStreamsOpen ==
    /\ [](\A i \in Accepted : stream[i].m_Status = "Open")
    /\ [][\A i \in NewlyPending : stream'[i].m_Status = "Open"]_vars

\* SpecPing: pings and packets addressed to the streams of a destination
NextPing ==
    \/ DestDeliver({FromPeer(Syn, 0, PeerID, 0, 1)} \cup PingPackets, MaxIncoming)
    \/ DestSetAcceptor({Installed("a")})
    \/ DestRunPosted

SpecPing == DestInit /\ [][NextPing]_vars

\* the destination has handled packet p
Handed(p) == ~dest.stopped /\ DestStep(DestHandleNextPacket(World(dest, stream), p))

\* an ECHO packet with a sendStreamID no stream of the destination has, that
\* carries the sender's identity and a signature that verifies
ValidPing(p) ==
    /\ IsEcho(p) /\ p.sid # 0 /\ p.sid \notin dest.m_Streams
    /\ {"FROM", "SIG"} \subseteq p.flags /\ p.opt = "ok"

MaxBuffers == 3       \* buffers in the queue
MaxLen == 2           \* bytes of a buffer
MaxGet == 3           \* len of a Get

Bytes == {0, 1}

\* SendBuffer::SendBuffer, GetRemainingSize, GetRemaningBuffer
NewSendBuffer(data) == [buf |-> data, len |-> Len(data), offset |-> 0]
GetRemainingSize(b) == b.len - b.offset
GetRemaningBuffer(b) == SubSeq(b.buf, b.offset + 1, b.len)

\* SendBufferQueue::SendBufferQueue, GetSize, IsEmpty
NewQueue == [m_Buffers |-> <<>>, m_Size |-> 0]
GetSize(q) == q.m_Size
IsEmpty(q) == q.m_Size = 0

\* SendBufferQueue::Add
Add(q, buf) ==
    IF buf # <<>>
    THEN [q EXCEPT !.m_Buffers = Append(@, buf[1]), !.m_Size = @ + buf[1].len]
    ELSE q

\* a loop of Get that takes whole buffers only
RECURSIVE GetWholeOnly(_, _, _)
GetWholeOnly(q, dst, len) ==
    IF q.m_Buffers # <<>> /\ Len(dst) < len
       /\ Len(dst) + GetRemainingSize(Head(q.m_Buffers)) <= len
    THEN GetWholeOnly([q EXCEPT !.m_Buffers = Tail(@)],
                      dst \o GetRemaningBuffer(Head(q.m_Buffers)), len)
    ELSE [q |-> q, dst |-> dst]

\* the loop of SendBufferQueue::Get; offset is Len(dst)
RECURSIVE GetLoop(_, _, _)
GetLoop(q, dst, len) ==
    IF q.m_Buffers # <<>> /\ Len(dst) < len
    THEN LET nextBuffer == Head(q.m_Buffers)
             rem == GetRemainingSize(nextBuffer)
         IN IF Len(dst) + rem <= len
            THEN \* whole buffer
                 GetLoop([q EXCEPT !.m_Buffers = Tail(@)],
                         dst \o GetRemaningBuffer(nextBuffer), len)
            ELSE \* partially
                 [q |-> [q EXCEPT !.m_Buffers[1].offset = @ + (len - Len(dst))],
                  dst |-> dst \o SubSeq(GetRemaningBuffer(nextBuffer), 1, len - Len(dst))]
    ELSE [q |-> q, dst |-> dst]

\* SendBufferQueue::Get: the queue after it and the bytes it has copied
Get(q, len) ==
    LET r == CHOOSE x \in {GetLoop(q, <<>>, len)} : TRUE
    IN [q |-> [r.q EXCEPT !.m_Size = @ - Len(r.dst)], dst |-> r.dst]

\* SendBufferQueue::CleanUp, and the buffers it cancels
CleanUp(q) == IF q.m_Buffers # <<>> THEN [m_Buffers |-> <<>>, m_Size |-> 0] ELSE q
Cancelled(q) == q.m_Buffers

\* the bytes of the buffers not yet read, oldest first
RECURSIVE Unread(_)
Unread(buffers) ==
    IF buffers = <<>> THEN <<>>
    ELSE GetRemaningBuffer(Head(buffers)) \o Unread(Tail(buffers))

(***************************************************************************)
(* SpecAcceptStream: a thread of the application calls AcceptStream with a *)
(* timeout while SYNs arrive and another thread installs an acceptor.      *)
(* peer is the call: "none" not yet made, "waiting" in wait_for,           *)
(* "returned" after wait_for has returned, notified or timed out.          *)
(***************************************************************************)
\* the one-shot acceptor of AcceptStream
Waiter == "w"

\* StreamingDestination::AcceptStream up to the wait
AcceptStream(w) == AcceptOnce(w, Waiter)

AcceptStreamCall ==
    /\ peer = "none"
    /\ Len(dest.posted) < MaxPosted
    /\ \E r \in {AcceptStream(World(dest, stream))} :
           dest' = r.d /\ stream' = r.h /\ app' = r.ev /\ net' = r.out
    /\ peer' = "waiting"

\* wait_for returns: the acceptor has notified, or the timeout has passed
AcceptStreamReturn ==
    /\ peer = "waiting"
    /\ peer' = "returned"
    /\ UNCHANGED <<dest, stream, app, net>>

AcceptStreamInit ==
    /\ dest = NewDestination
    /\ stream = <<>>
    /\ app = <<>> /\ net = <<>> /\ peer = "none"

NextAcceptStream ==
    \/ DestDeliver(SynPackets, MaxStreams)
    \/ DestPendingTimer
    \/ DestSetAcceptor({Installed("a")})
    \/ DestAcceptOnce({"x"})
    \/ DestRunPosted
    \/ AcceptStreamCall
    \/ AcceptStreamReturn

SpecAcceptStream == AcceptStreamInit /\ [][NextAcceptStream]_vars

\* the one-shot acceptors bound in m_Acceptor, and those AcceptOnce has posted
BoundOnce(d) ==
    {d.m_Acceptor[k].name : k \in {i \in DOMAIN d.m_Acceptor : d.m_Acceptor[i].once}}
PostedOnce(d) ==
    {d.posted[k].name : k \in {i \in DOMAIN d.posted : d.posted[i].task = "AcceptOnce"}}

\* C39: after AcceptStream has returned, with a stream or with null, its
\* one-shot acceptor is not installed and is not called with a stream that
\* arrives later; and a one-shot acceptor bound by AcceptOnce leaves
\* m_Acceptor only by being called: SetAcceptor does not discard it.
AcceptStreamUninstalls ==
    /\ [](peer = "returned" => Waiter \notin BoundOnce(dest) \cup PostedOnce(dest))
    /\ [][peer = "returned" => CallsOf(app', Waiter) = {}]_vars
    /\ [][\A name \in BoundOnce(dest) \ BoundOnce(dest') :
              CallsOf(app', name) # {}]_vars

(***************************************************************************)
(* SpecMaps: the accesses to m_Streams and m_IncomingStreams.  The thread  *)
(* of the destination's service ("loop") handles packets and deletes       *)
(* streams; a thread of the application ("app") creates outgoing streams,  *)
(* deletes a stream by its id and stops the destination.  An access is     *)
(* entered and left in two steps; dest is the two maps' keys and the       *)
(* holder of m_StreamsMutex, stream the position of each thread, net the   *)
(* outcome of the last lookup.                                             *)
(***************************************************************************)
MaxIds == 2     \* ids of streams

Ids == 1 .. MaxIds
Threads == {"loop", "app"}
BothMaps == {"m_Streams", "m_IncomingStreams"}

\* an access of a method: what it does, to which maps, and whether a
\* std::unique_lock of m_StreamsMutex is held meanwhile
Access(kind, locked, maps) == [kind |-> kind, locked |-> locked, maps |-> maps]

\* the accesses of the methods, in the order they make them
MapOps ==
    [HandleNextPacket |-> <<Access("find", FALSE, {"m_Streams"})>>,
     HandleNextPacketSyn |-> <<Access("find", FALSE, {"m_IncomingStreams"}),
                               Access("emplace", TRUE, BothMaps)>>,
     DeleteStream |-> <<Access("erase", TRUE, BothMaps),
                        Access("empty", FALSE, {"m_Streams"})>>,
     CreateNewOutgoingStream |-> <<Access("emplace", TRUE, {"m_Streams"})>>,
     DeleteStreamByID |-> <<Access("find", FALSE, {"m_Streams"})>>,
     Stop |-> <<Access("clear", TRUE, BothMaps)>>]

\* the methods each thread calls
OpsOf(t) ==
    IF t = "loop" THEN {"HandleNextPacket", "HandleNextPacketSyn", "DeleteStream"}
    ELSE {"CreateNewOutgoingStream", "DeleteStreamByID", "Stop"}

Idle == [op |-> "", at |-> 0, pc |-> "idle", arg |-> 0, raced |-> FALSE]

Current(th) == MapOps[th.op][th.at]
Inside(th) == th.pc = "inside"
Mutates(acc) == acc.kind \in {"emplace", "erase", "clear"}

\* two accesses that must not be made at the same time
Conflict(a, b) == a.maps \cap b.maps # {} /\ (Mutates(a) \/ Mutates(b))

\* the maps after the access
MapsAfter(d, acc, id) ==
    LET Keys(m, keys) == IF m \in acc.maps THEN keys ELSE d[m]
        After(m) == CASE acc.kind = "emplace" -> Keys(m, d[m] \cup {id})
                      [] acc.kind = "erase" -> Keys(m, d[m] \ {id})
                      [] acc.kind = "clear" -> Keys(m, {})
                      [] OTHER -> d[m]
    IN [d EXCEPT !.m_Streams = After("m_Streams"),
                 !.m_IncomingStreams = After("m_IncomingStreams")]

\* what a lookup that no mutation overlapped finds
Found(d, acc, id) ==
    CASE acc.kind = "find" -> \E m \in acc.maps : id \in d[m]
      [] acc.kind = "empty" -> d.m_Streams = {}
      [] OTHER -> FALSE

\* the thread goes on with the method's next access, or the method returns:
\* HandleNextPacket creates the incoming stream if it has found none
Onward(th, found) ==
    IF th.at < Len(MapOps[th.op]) /\ ~(th.op = "HandleNextPacketSyn" /\ found)
    THEN [th EXCEPT !.at = @ + 1, !.pc = "ready", !.raced = FALSE]
    ELSE Idle

MapCall(t) ==
    \E op \in OpsOf(t), id \in Ids :
        /\ stream[t].pc = "idle"
        /\ op = "CreateNewOutgoingStream" => id \notin dest.m_Streams
        /\ stream' = [stream EXCEPT ![t] = [op |-> op, at |-> 1, pc |-> "ready",
                                           arg |-> id, raced |-> FALSE]]
        /\ UNCHANGED <<dest, net, peer, app>>

MapLock(t) ==
    /\ stream[t].pc = "ready" /\ Current(stream[t]).locked
    /\ dest.m_StreamsMutex = ""
    /\ dest' = [dest EXCEPT !.m_StreamsMutex = t]
    /\ stream' = [stream EXCEPT ![t].pc = "locked"]
    /\ UNCHANGED <<net, peer, app>>

MapEnter(t) ==
    /\ stream[t].pc \in {"ready", "locked"}
    /\ stream[t].pc = (IF Current(stream[t]).locked THEN "locked" ELSE "ready")
    /\ LET overlaps(u) == /\ u # t /\ Inside(stream[u])
                          /\ Conflict(Current(stream[t]), Current(stream[u]))
       IN stream' = [u \in Threads |->
                        IF u = t
                        THEN [stream[t] EXCEPT !.pc = "inside",
                                               !.raced = \E v \in Threads : overlaps(v)]
                        ELSE [stream[u] EXCEPT !.raced = @ \/ overlaps(u)]]
    /\ UNCHANGED <<dest, net, peer, app>>

\* the access is over; a lookup that a mutation overlapped has any outcome
MapLeave(t) ==
    /\ Inside(stream[t])
    /\ LET th == stream[t]
           acc == Current(th)
       IN \E found \in IF Mutates(acc) THEN {FALSE}
                       ELSE IF th.raced THEN BOOLEAN
                       ELSE {Found(dest, acc, th.arg)} :
              /\ dest' = MapsAfter(dest, acc, th.arg)
              /\ net' = IF Mutates(acc) THEN net
                        ELSE [by |-> t, op |-> th.op, found |-> found,
                              defined |-> ~th.raced]
              /\ stream' = [stream EXCEPT ![t] = IF acc.locked
                                                 THEN [th EXCEPT !.pc = "unlock"]
                                                 ELSE Onward(th, found)]
    /\ UNCHANGED <<peer, app>>

MapUnlock(t) ==
    /\ stream[t].pc = "unlock"
    /\ dest' = [dest EXCEPT !.m_StreamsMutex = ""]
    /\ stream' = [stream EXCEPT ![t] = Onward(stream[t], FALSE)]
    /\ UNCHANGED <<net, peer, app>>

MapsInit ==
    /\ dest = [m_Streams |-> {}, m_IncomingStreams |-> {}, m_StreamsMutex |-> ""]
    /\ stream = [t \in Threads |-> Idle]
    /\ net = [by |-> "", op |-> "", found |-> FALSE, defined |-> TRUE]
    /\ peer = 0 /\ app = 0

NextMaps ==
    \E t \in Threads :
        \/ MapCall(t)
        \/ MapLock(t)
        \/ MapEnter(t)
        \/ MapLeave(t)
        \/ MapUnlock(t)

SpecMaps == MapsInit /\ [][NextMaps]_vars

\* C40: every access to m_Streams and m_IncomingStreams is made on the
\* destination's event loop or while holding m_StreamsMutex, and a lookup on
\* the loop never overlaps a mutation made by a thread of the application.
MapAccessesSerialized ==
    /\ \A t \in Threads :
           Inside(stream[t]) => (t = "loop" \/ dest.m_StreamsMutex = t)
    /\ ~(/\ Inside(stream["loop"]) /\ Inside(stream["app"])
         /\ ~Mutates(Current(stream["loop"]))
         /\ Mutates(Current(stream["app"]))
         /\ Conflict(Current(stream["loop"]), Current(stream["app"])))

(***************************************************************************)
(* SpecQueue: one SendBufferQueue.  stream is the queue; app is the last   *)
(* call: op, the len asked of Get, the bytes Get copied, the buffers       *)
(* CleanUp cancelled, the unread bytes in the order of submission before   *)
(* the call and those to be expected after it.  AsyncSend adds buffers of  *)
(* one byte or more, or none.                                              *)
(***************************************************************************)
Datas == UNION {[1 .. n -> Bytes] : n \in 1 .. MaxLen}

Call(op, len, got, cancelled, before, expect) ==
    [op |-> op, len |-> len, got |-> got, cancelled |-> cancelled,
     before |-> before, expect |-> expect]

QueueAdd ==
    \E buf \in {<<>>} \cup {<<NewSendBuffer(d)>> : d \in Datas} :
        /\ Len(stream.m_Buffers) < MaxBuffers
        /\ stream' = Add(stream, buf)
        /\ app' = Call("Add", 0, <<>>, <<>>, app.expect,
                       app.expect \o (IF buf = <<>> THEN <<>> ELSE buf[1].buf))
        /\ UNCHANGED <<peer, net, dest>>

QueueGet ==
    \E len \in 0 .. MaxGet :
        \E r \in {Get(stream, len)} :
            /\ stream' = r.q
            /\ app' = Call("Get", len, r.dst, <<>>, app.expect,
                           SubSeq(app.expect, Min(len, Len(app.expect)) + 1,
                                  Len(app.expect)))
            /\ UNCHANGED <<peer, net, dest>>

QueueCleanUp ==
    /\ stream' = CleanUp(stream)
    /\ app' = Call("CleanUp", 0, <<>>, Cancelled(stream), app.expect, <<>>)
    /\ UNCHANGED <<peer, net, dest>>

QueueInit ==
    /\ stream = NewQueue
    /\ app = Call("none", 0, <<>>, <<>>, <<>>, <<>>)
    /\ peer = 0 /\ net = 0 /\ dest = 0

NextQueue == QueueAdd \/ QueueGet \/ QueueCleanUp

SpecQueue == QueueInit /\ [][NextQueue]_vars

\* C20: after any calls of Add, Get and CleanUp, Size is the number of unread
\* bytes of the queued buffers and IsEmpty holds iff it is 0; the queue holds
\* the unread bytes in the order of submission; Get (dst, len) has copied the
\* min (len, Size) oldest of them, every buffer left has unread bytes and only
\* the front one may be partly read; CleanUp has cancelled every buffer that
\* was left and the queue is empty with Size 0.
QueueIsFifo ==
    /\ GetSize(stream) = Len(Unread(stream.m_Buffers))
    /\ IsEmpty(stream) <=> Unread(stream.m_Buffers) = <<>>
    /\ Unread(stream.m_Buffers) = app.expect
    /\ app.op = "Get"
          => /\ Len(app.got) = Min(app.len, Len(app.before))
             /\ app.got = SubSeq(app.before, 1, Len(app.got))
    /\ \A i \in DOMAIN stream.m_Buffers :
          /\ GetRemainingSize(stream.m_Buffers[i]) > 0
          /\ i > 1 => stream.m_Buffers[i].offset = 0
    /\ app.op = "CleanUp"
          => /\ stream.m_Buffers = <<>> /\ GetSize(stream) = 0
             /\ Unread(app.cancelled) = app.before

\* a Get has copied bytes of two buffers and left the second partly read
GetAcrossBuffers ==
    /\ app.op = "Get" /\ Len(app.got) = MaxGet
    /\ stream.m_Buffers # <<>>
    /\ Head(stream.m_Buffers).offset = 1
    /\ Len(stream.m_Buffers) = 2

====
